---- MODULE Spec2Model ----
(***************************************************************************)
(* A model of tinynn/graph/quantization/quantizer.py: the rule-trie        *)
(* compiler, the quantizer constructors, the quantization propagator, the  *)
(* fusion matcher, the cat-requantization unifier, the graph rewriter and   *)
(* the preparation.                                                        *)
(*                                                                         *)
(* Every component has its own variables and its own specification; the    *)
(* variables of the other components stay at their initial value.          *)
(***************************************************************************)
EXTENDS Integers, Sequences, FiniteSets, TLC

VARIABLES
    \* ---- rule compiler (load_processed_*_rules) ----
    which,          \* the rule set being loaded: "qat", "ptq", "extra", "abc"
    torch_minor,    \* minor number of torch.__version__ (1.x.0)
    fuse_rules,     \* rules of the sorted list not yet inserted
    rule_dict,      \* the trie under construction
    processed,      \* the module-level cache processed_*_rules
    loads,          \* number of finished load_processed_*_rules calls
    tpc,            \* position of the loader
    \* ---- quantizer construction (__init__, parse_config, quantize) ----
    cls,            \* the class constructed
    config,         \* the config dict given to the constructor
    self,           \* the attributes parse_config and __init__ set
    cpc,            \* position in __init__ / quantize
    failed_at,      \* the assertion that failed, "" when none did
    model_mode,     \* "untouched", or the mode quantize() put the model in
    traced,         \* whether trace() has built a graph
    \* ---- quantization propagator (prepare_qat_prep, first half) ----
    pgraph,         \* the traced graph: node -> [kind, prev, flag]
    qat_analysis_queue, \* the work queue of (node, quantized) entries
    visited,        \* unique names of the nodes already analysed
    quantized,      \* node -> node.quantized
    graph_quantized,    \* graph.quantized
    ppc,            \* position in prepare_qat_prep
    \* ---- fusion matcher (is_fusable under graph.filter_forward_nodes) ----
    fgraph,         \* the graph: node -> [type, prev, module, quantized]
    frules,         \* the rule trie passed as current_rules
    fpos,           \* the node filter_forward_nodes(reverse=True) visits next
    quant_list,     \* custom_data[0]: the chains found
    consumed,       \* custom_data[1]: the names the chains hold
    fpc,            \* position of the matcher
    \* ---- graph rewrite (rewrite_quantize_graph) ----
    rnodes,         \* the traced graph: node -> [kind, func_type, args, prev]
    rorder,         \* its nodes in forward order
    rquantized,     \* graph.quantized of the traced graph
    rpc,            \* position in quantize() / rewrite_quantize_graph
    \* ---- cat unifier (disable_requantization_for_cat_pass) ----
    cgraph,         \* the prepared graph: node -> [kind, prev, quantized]
    holds,          \* holder of node -> the observer instance it refers to
    cat_idx,        \* index of the cat node at hand in quantized_cat_nodes
    cat_q,          \* q: the queue of (node, mode, fq_count)
    visited_center, \* cat nodes visited, over the whole pass
    visited_other,  \* other nodes visited for the cat node at hand
    parents,        \* the holders recorded for the cat node at hand
    catpc,          \* position in the pass
    \* ---- preparation (prepare_qat and its post-passes) ----
    prep_self,      \* the attributes of the quantizer prepare_qat reads
    prep_done,      \* the steps of prepare_qat that have run, in order
    stub_stats,     \* QuantStub node -> what set_module_quantization set
    prpc,           \* position in prepare_qat
    \* ---- error_analysis ----
    fq_modules,     \* the FakeQuantize modules of the model, in named_modules order
    dummy_input,    \* the type of dummy_input, and whether the forward pass raises
    called,         \* the FakeQuantize modules the forward pass runs, in order
    hooks,          \* the modules holding a forward hook of the call
    fake_quant_enabled_dict,    \* module -> saved fake_quant_enabled
    observer_enabled_dict,      \* module -> saved observer_enabled
    float_results,  \* the modules whose input is captured, in insertion order
    before,         \* the modules as they were when error_analysis was called
    eapc            \* position in error_analysis

varsTrie == <<which, torch_minor, fuse_rules, rule_dict, processed, loads, tpc>>

varsCfg == <<cls, config, self, cpc, failed_at, model_mode, traced>>

varsProp == <<pgraph, qat_analysis_queue, visited, quantized, graph_quantized, ppc>>

varsFuse == <<fgraph, frules, fpos, quant_list, consumed, fpc>>

varsRw == <<rnodes, rorder, rquantized, rpc>>

varsCat == <<cgraph, holds, cat_idx, cat_q, visited_center, visited_other, parents, catpc>>

varsPrep == <<prep_self, prep_done, stub_stats, prpc>>

varsEa == <<fq_modules, dummy_input, called, hooks, fake_quant_enabled_dict,
            observer_enabled_dict, float_results, before, eapc>>

vars == <<varsTrie, varsCfg, varsProp, varsFuse, varsRw, varsCat, varsPrep, varsEa>>

\* what the actions of one component leave alone
varsNotTrie == <<varsCfg, varsProp, varsFuse, varsRw, varsCat, varsPrep, varsEa>>
varsNotCfg == <<varsTrie, varsProp, varsFuse, varsRw, varsCat, varsPrep, varsEa>>
varsNotProp == <<varsTrie, varsCfg, varsFuse, varsRw, varsCat, varsPrep, varsEa>>
varsNotFuse == <<varsTrie, varsCfg, varsProp, varsRw, varsCat, varsPrep, varsEa>>
varsNotRw == <<varsTrie, varsCfg, varsProp, varsFuse, varsCat, varsPrep, varsEa>>
varsNotCat == <<varsTrie, varsCfg, varsProp, varsFuse, varsRw, varsPrep, varsEa>>

-----------------------------------------------------------------------------
(* Helpers on sequences.                                                   *)

\* the elements of a set of numbers, ascending
RECURSIVE SortedSeq(_)
SortedSeq(S) ==
    IF S = {} THEN <<>>
    ELSE LET m == CHOOSE x \in S : \A y \in S : x <= y
         IN  <<m>> \o SortedSeq(S \ {m})

RECURSIVE Reverse(_)
Reverse(s) == IF s = <<>> THEN <<>> ELSE Append(Reverse(Tail(s)), Head(s))

Prefix(s, k) == SubSeq(s, 1, k)

SeqsUpTo(S, n) == UNION {[1..k -> S] : k \in 1..n}

Range(s) == {s[i] : i \in 1..Len(s)}

Max(S) == CHOOSE x \in S : \A y \in S : y <= x

-----------------------------------------------------------------------------
(* Bounds of the model.                                                    *)

\* calls of one loader in a run
MaxLoads == 2

\* length of the operator-type sequences looked up in a compiled trie
MaxWalk == 3

\* nodes of the graphs the propagator is run on
MaxPropNodes == 4

\* nodes of the graphs the fusion matcher is run on, the input node included
MaxFuseNodes == 4

\* nodes of the models that are rewritten, the inputs included, the output not
MaxRwNodes == 4

\* modules between input and output of the models the whole pipeline is run on
MaxChain == 3

\* tensor values are -MaxVal .. MaxVal
MaxVal == 2

\* nodes of the prepared graphs the cat unifier is run on
MaxCatNodes == 4

\* nodes of the traced graphs with div nodes, the output node not counted
MaxDivNodes == 3

\* nodes of the traced graphs with unsupported ops, the output not counted
MaxIsoNodes == 4

\* nodes of the traced graphs with reflected adds, the output not counted
MaxRaddNodes == 3

\* nodes of the traced graphs with in-place adds, the output not counted
MaxAddNodes == 4

\* nodes of the traced graphs with constants, the outputs not counted
MaxBndNodes == 3

\* nodes of the traced graphs with batch normalisation, the output not
\* counted
MaxBnNodes == 3

\* nodes of the graphs prepare_qat is run on
MaxPrepNodes == 3

\* nodes of the traced graphs with stack nodes, the output not counted
MaxStackNodes == 3

\* nodes of the traced graphs the rewrite and the analysis are run on in
\* turn, the output not counted
MaxUqNodes == 3

\* modules between input and output of the models the post-training
\* pipeline is run on
MaxPtqChain == 3

\* FakeQuantize modules of the model error_analysis is given
MaxFq == 2

-----------------------------------------------------------------------------
(* The fusion rules, earliest producer first.                              *)

FUSE_RULE_LIST ==
    { <<"Conv1d", "BatchNorm1d">>, <<"Conv1d", "BatchNorm1d", "ReLU">>,
      <<"Conv2d", "BatchNorm2d">>, <<"Conv2d", "BatchNorm2d", "ReLU">>,
      <<"Conv3d", "BatchNorm3d">>, <<"Conv3d", "BatchNorm3d", "ReLU">>,
      <<"Conv1d", "ReLU">>, <<"Conv2d", "ReLU">>, <<"Conv3d", "ReLU">>,
      <<"Linear", "ReLU">>, <<"BatchNorm2d", "ReLU">>, <<"BatchNorm3d", "ReLU">> }

\* rule -> the torch minor version from which it is available
FUSE_RULE_LIST_PTQ_ONLY ==
    { <<<<"Linear", "BatchNorm1d">>, 8>>,
      <<<<"ConvTranspose1d", "BatchNorm1d">>, 11>>,
      <<<<"ConvTranspose2d", "BatchNorm2d">>, 11>>,
      <<<<"ConvTranspose3d", "BatchNorm3d">>, 11>> }

FUSE_RULE_LIST_EXTRA ==
    { <<"Conv1d", "BatchNorm1d", "ReLU6">>, <<"Conv2d", "BatchNorm2d", "ReLU6">>,
      <<"Conv3d", "BatchNorm3d", "ReLU6">>,
      <<"Conv1d", "ReLU6">>, <<"Conv2d", "ReLU6">>, <<"Conv3d", "ReLU6">>,
      <<"Linear", "ReLU6">>, <<"Linear", "BatchNorm1d", "ReLU6">>,
      <<"BatchNorm2d", "ReLU6">>, <<"BatchNorm3d", "ReLU6">>,
      <<"add", "ReLU6">>, <<"add", "relu6">> }

\* the rule set of the spec's example
RULES_ABC == { <<"A", "B", "C">> }

\* torch versions the model is run with: before 1.8, 1.8 .. 1.10, from 1.11
TorchMinors == {7, 8, 11}

RuleSetNames == {"qat", "ptq", "extra", "abc"}

\* The rule set a loader compiles.
RuleSet(w, minor) ==
    CASE w = "qat"   -> FUSE_RULE_LIST
      [] w = "ptq"   -> FUSE_RULE_LIST \cup
                        { kv[1] : kv \in {x \in FUSE_RULE_LIST_PTQ_ONLY : minor >= x[2]} }
      [] w = "extra" -> FUSE_RULE_LIST_EXTRA
      [] OTHER       -> RULES_ABC

-----------------------------------------------------------------------------
(* The trie.  The nested dictionary {cls: [has_key, child_nodes]} is       *)
(* represented by the function from the path of keys leading to a node to  *)
(* that node's has_key flag.                                               *)

EmptyTrie == [p \in {} |-> FALSE]

IsProperPrefix(p, q) == Len(p) < Len(q) /\ Prefix(q, Len(p)) = p

\* base_rule_dict[module_cls] = [False, {}]: the node is replaced, not kept
SetDefaultOverwrites(trie, path) ==
    [p \in {q \in DOMAIN trie : ~IsProperPrefix(path, q)} \cup {path} |->
        IF p = path THEN FALSE ELSE trie[p]]

\* dict.setdefault(module_cls, [False, {}]) on the node reached by `path`
SetDefault(trie, path) ==
    IF path \in DOMAIN trie THEN trie
    ELSE [p \in DOMAIN trie \cup {path} |-> IF p = path THEN FALSE ELSE trie[p]]

\* the body of `for module_cls in reversed(fuse_rule)` for the first k classes
RECURSIVE WalkInsert(_, _, _)
WalkInsert(trie, rev, k) ==
    IF k = 0 THEN trie
    ELSE SetDefault(WalkInsert(trie, rev, k - 1), Prefix(rev, k))

\* one iteration of `for fuse_rule in fuse_rules`
InsertRule(trie, rule) ==
    LET rev == Reverse(rule)
        t   == WalkInsert(trie, rev, Len(rev))
    IN  [t EXCEPT ![rev] = TRUE]

\* `cur_class in current_rules` after the walk along `path`
TrieHas(trie, path) == path \in DOMAIN trie

\* the has_key flag of the node the walk along `path` reaches
TrieTerminal(trie, path) == TrieHas(trie, path) /\ trie[path]

-----------------------------------------------------------------------------
(* load_processed_qat_rules / load_processed_ptq_rules /                   *)
(* load_processed_extra_qat_rules                                          *)

IdleTrie ==
    /\ which = "qat"
    /\ torch_minor = 11
    /\ fuse_rules = {}
    /\ rule_dict = EmptyTrie
    /\ processed = EmptyTrie
    /\ loads = 0
    /\ tpc = "idle"

InitTrie ==
    /\ which \in RuleSetNames
    /\ torch_minor \in TorchMinors
    /\ fuse_rules = {}
    /\ rule_dict = EmptyTrie
    /\ processed = EmptyTrie
    /\ loads = 0
    /\ tpc = "idle"

\* A call enters the loader: the cache is compiled only when it is empty.
LoadBegin ==
    /\ tpc = "idle"
    /\ loads < MaxLoads
    /\ IF DOMAIN processed = {}
       THEN /\ fuse_rules' = RuleSet(which, torch_minor)
            /\ rule_dict' = EmptyTrie
            /\ tpc' = "compile"
       ELSE /\ tpc' = "return"
            /\ UNCHANGED <<fuse_rules, rule_dict>>
    /\ UNCHANGED <<which, torch_minor, processed, loads>>
    /\ UNCHANGED varsNotTrie

\* One iteration over sorted(rules, key=len, reverse=True): a longest
\* remaining rule comes next, ties in the order of the set's iteration.
LoadInsert ==
    /\ tpc = "compile"
    /\ fuse_rules # {}
    /\ \E rule \in fuse_rules :
        /\ Len(rule) = Max({Len(r) : r \in fuse_rules})
        /\ rule_dict' = InsertRule(rule_dict, rule)
        /\ fuse_rules' = fuse_rules \ {rule}
    /\ UNCHANGED <<which, torch_minor, processed, loads, tpc>>
    /\ UNCHANGED varsNotTrie

\* processed_*_rules.update(rule_dict)
LoadUpdate ==
    /\ tpc = "compile"
    /\ fuse_rules = {}
    /\ processed' = rule_dict
    /\ tpc' = "return"
    /\ UNCHANGED <<which, torch_minor, fuse_rules, rule_dict, loads>>
    /\ UNCHANGED varsNotTrie

\* return processed_*_rules
LoadReturn ==
    /\ tpc = "return"
    /\ loads' = loads + 1
    /\ tpc' = "idle"
    /\ UNCHANGED <<which, torch_minor, fuse_rules, rule_dict, processed>>
    /\ UNCHANGED varsNotTrie

NextTrie == LoadBegin \/ LoadInsert \/ LoadUpdate \/ LoadReturn

-----------------------------------------------------------------------------
(* Quantizer construction: QATQuantizer.__init__, the parse_config of the  *)
(* four classes, and the first steps of quantize().                        *)

Classes == {"QATQuantizer", "PostQuantizer", "DynamicQuantizer", "BF16Quantizer"}

\* the value of a key the config dict does not hold
Absent == "absent"

\* Python values are written as strings: "True", "False", "None"
Truthy(v) == v = "True"

\* the keys of the config dict the constructor's checks read
ConfigKeys == {"asymmetric", "per_tensor", "backend", "disable_requantization_for_cat"}

\* the config dicts the model constructs quantizers with (config=None is the
\* dict that holds no key)
Configs ==
    [ asymmetric : {Absent, "True", "False"},
      per_tensor : {Absent, "True", "False"},
      backend : {Absent, "qnnpack", "fbgemm", "onnx"},
      disable_requantization_for_cat : {Absent, "True", "False"} ]

\* default_values of QATQuantizer.parse_config
default_values ==
    [ asymmetric |-> "True",
      per_tensor |-> "True",
      backend |-> "qnnpack",
      disable_requantization_for_cat |-> "None",
      rewrite_graph |-> "True" ]

\* config.get(k, v)
ConfigGet(cfg, k, v) == IF k \in DOMAIN cfg /\ cfg[k] # Absent THEN cfg[k] ELSE v

\* QATQuantizer.parse_config: setattr(self, k, config.get(k, v)) for every default
QATParseConfig(cfg) ==
    [k \in DOMAIN default_values |-> ConfigGet(cfg, k, default_values[k])]

\* DynamicQuantizer.parse_config without its per_tensor assertion
DynamicAssertsAsymmetricOnly(slf) ==
    IF Truthy(slf.asymmetric) THEN "dynamic_asymmetric" ELSE ""

\* the assertions of DynamicQuantizer.parse_config, in order; "" when they pass
DynamicAsserts(slf) ==
    IF Truthy(slf.asymmetric) THEN "dynamic_asymmetric"
    ELSE IF ~Truthy(slf.per_tensor) THEN "dynamic_per_channel"
    ELSE ""

\* the fbgemm branch with the per-tensor assertion left out
FbgemmAssertsNoPerTensor(slf) ==
    IF slf.backend # "fbgemm" THEN ""
    ELSE IF ~Truthy(slf.asymmetric) THEN "fbgemm_symmetric"
    ELSE ""

\* the assertions of the fbgemm branch of __init__, in order
FbgemmAsserts(slf) ==
    IF slf.backend # "fbgemm" THEN ""
    ELSE IF ~Truthy(slf.asymmetric) THEN "fbgemm_symmetric"
    ELSE IF Truthy(slf.per_tensor) THEN "fbgemm_per_tensor"
    ELSE ""

\* disable_requantization_for_cat defaults to `not per_tensor`
CatDefault(slf) ==
    IF slf.disable_requantization_for_cat = "None"
    THEN [slf EXCEPT !.disable_requantization_for_cat =
                        IF ~Truthy(slf.per_tensor) THEN "True" ELSE "False"]
    ELSE slf

Unset == [k \in {} |-> ""]

IdleCfg ==
    /\ cls = "QATQuantizer"
    /\ config = [k \in ConfigKeys |-> Absent]
    /\ self = Unset
    /\ cpc = "new"
    /\ failed_at = ""
    /\ model_mode = "untouched"
    /\ traced = FALSE

InitCfg ==
    /\ cls \in Classes
    /\ config \in Configs
    /\ self = Unset
    /\ cpc = "new"
    /\ failed_at = ""
    /\ model_mode = "untouched"
    /\ traced = FALSE

\* self.parse_config(config), with the override of the class constructed
ParseConfig ==
    /\ cpc = "new"
    /\ LET parsed == QATParseConfig(config)
           slf == IF cls \in {"DynamicQuantizer", "BF16Quantizer"}
                  THEN [parsed EXCEPT !.rewrite_graph = "False"]
                  ELSE parsed
           bad == IF cls = "DynamicQuantizer" THEN DynamicAsserts(slf) ELSE ""
       IN  /\ self' = slf
           /\ failed_at' = bad
           /\ cpc' = IF bad = "" THEN "parsed" ELSE "failed"
    /\ UNCHANGED <<cls, config, model_mode, traced>>
    /\ UNCHANGED varsNotCfg

\* the rest of __init__: the backend checks and the cat default
InitChecks ==
    /\ cpc = "parsed"
    /\ LET bad1 == FbgemmAsserts(self)
           slf == CatDefault(self)
           bad2 == IF Truthy(slf.per_tensor) \/ Truthy(slf.disable_requantization_for_cat)
                   THEN "" ELSE "per_channel_needs_cat"
       IN  IF bad1 # ""
           THEN /\ failed_at' = bad1
                /\ cpc' = "failed"
                /\ UNCHANGED self
           ELSE /\ self' = slf
                /\ failed_at' = bad2
                /\ cpc' = IF bad2 = "" THEN "constructed" ELSE "failed"
    /\ UNCHANGED <<cls, config, model_mode, traced>>
    /\ UNCHANGED varsNotCfg

\* quantize(): self.model.train() or self.model.eval()
QuantizeMode ==
    /\ cpc = "constructed"
    /\ model_mode' = IF cls = "DynamicQuantizer" THEN "eval" ELSE "train"
    /\ cpc' = IF cls \in {"DynamicQuantizer", "BF16Quantizer"} THEN "quantized" ELSE "mode_set"
    /\ UNCHANGED <<cls, config, self, failed_at, traced>>
    /\ UNCHANGED varsNotCfg

\* QATQuantizer.quantize(): graph = trace(self.model, self.dummy_input)
QuantizeTrace ==
    /\ cpc = "mode_set"
    /\ traced' = TRUE
    /\ cpc' = "quantized"
    /\ UNCHANGED <<cls, config, self, failed_at, model_mode>>
    /\ UNCHANGED varsNotCfg

NextCfg == ParseConfig \/ InitChecks \/ QuantizeMode \/ QuantizeTrace

-----------------------------------------------------------------------------
(* The quantization propagator: the breadth-first analysis at the start of *)
(* prepare_qat_prep.  A graph is a sequence of nodes in forward order; a   *)
(* node is [kind, prev, flag]: prev is the set of its predecessors and     *)
(* flag the seed flag of an input (its is_input_quantized entry) or of a   *)
(* constant (its dtype is not float32).                                    *)

SourceKinds == {"input", "const"}
InnerKinds == {"op", "QuantStub", "DeQuantStub", "output"}

\* the nodes that may follow the nodes of g: a source (the first node is an
\* input, the second may be a second input or a constant) or a node fed by
\* one or two earlier nodes that are not output nodes
NodeChoices(g) ==
    LET j == Len(g) + 1
        feeders == {i \in 1..Len(g) : g[i].kind # "output"}
        sources == IF j = 1 THEN {"input"} ELSE IF j = 2 THEN SourceKinds ELSE {}
    IN  [kind : sources, prev : {{}}, flag : BOOLEAN]
        \cup [kind : InnerKinds,
              prev : {P \in SUBSET feeders : Cardinality(P) \in {1, 2}},
              flag : {FALSE}]

Nodes(g) == 1..Len(g)

\* node.next_nodes, in forward order
NextNodes(g, n) == SortedSeq({m \in Nodes(g) : n \in g[m].prev})

\* graph.input_nodes, then graph.constant_nodes + extra_constant_nodes
SeedNodes(g) ==
    SortedSeq({n \in Nodes(g) : g[n].kind = "input"})
    \o SortedSeq({n \in Nodes(g) : g[n].kind = "const"})

\* the flag a DeQuantStub hands on when it hands on what it received
OutFlagDequantKeeps(kind, incoming) ==
    IF kind = "QuantStub" THEN TRUE ELSE incoming

\* the flag _qat_analysis puts in the queue for the successors of a node
OutFlag(kind, incoming) ==
    IF kind = "QuantStub" THEN TRUE
    ELSE IF kind = "DeQuantStub" THEN FALSE
    ELSE incoming

\* the flag stored when the markers are not told apart from other nodes
NodeFlagIncoming(kind, incoming) == incoming

\* the flag _qat_analysis stores in node.quantized
NodeFlag(kind, incoming) ==
    IF kind \in {"QuantStub", "DeQuantStub"} THEN TRUE ELSE incoming

\* graph.quantized = quantized
GraphFlagAssigned(gq, incoming) == incoming

\* if not graph.quantized: graph.quantized = graph.quantized or quantized
GraphFlag(gq, incoming) == IF ~gq THEN gq \/ incoming ELSE gq

IdleProp ==
    /\ pgraph = <<>>
    /\ qat_analysis_queue = <<>>
    /\ visited = {}
    /\ quantized = <<>>
    /\ graph_quantized = FALSE
    /\ ppc = "idle"

InitProp ==
    /\ pgraph = <<>>
    /\ qat_analysis_queue = <<>>
    /\ visited = {}
    /\ quantized = <<>>
    /\ graph_quantized = FALSE
    /\ ppc = "trace"

\* trace(): the tracer adds the next node of the forward pass, unquantized
PropTrace ==
    /\ ppc = "trace"
    /\ Len(pgraph) < MaxPropNodes
    /\ \E c \in NodeChoices(pgraph) :
        /\ pgraph' = Append(pgraph, c)
        /\ quantized' = Append(quantized, FALSE)
    /\ UNCHANGED <<qat_analysis_queue, visited, graph_quantized, ppc>>
    /\ UNCHANGED varsNotProp

\* the queue is seeded with the inputs and the constants
PropSeed ==
    /\ ppc = "trace"
    /\ pgraph # <<>>
    /\ LET seeds == SeedNodes(pgraph)
       IN  qat_analysis_queue' = [i \in 1..Len(seeds) |-> <<seeds[i], pgraph[seeds[i]].flag>>]
    /\ ppc' = "loop"
    /\ UNCHANGED <<pgraph, visited, quantized, graph_quantized>>
    /\ UNCHANGED varsNotProp

\* one iteration of `while not qat_analysis_queue.empty()`
PropDequeue ==
    /\ ppc = "loop"
    /\ qat_analysis_queue # <<>>
    /\ LET node == Head(qat_analysis_queue)[1]
           incoming == Head(qat_analysis_queue)[2]
           kind == pgraph[node].kind
           succ == NextNodes(pgraph, node)
           out == OutFlag(kind, incoming)
       IN  /\ graph_quantized' = GraphFlag(graph_quantized, incoming)
           /\ IF node \in visited
              THEN /\ qat_analysis_queue' = Tail(qat_analysis_queue)
                   /\ UNCHANGED <<visited, quantized>>
              ELSE /\ visited' = visited \cup {node}
                   /\ IF kind = "output"
                      THEN /\ qat_analysis_queue' = Tail(qat_analysis_queue)
                           /\ UNCHANGED quantized
                      ELSE /\ quantized' = [quantized EXCEPT ![node] = NodeFlag(kind, incoming)]
                           /\ qat_analysis_queue' =
                                Tail(qat_analysis_queue)
                                \o [i \in 1..Len(succ) |-> <<succ[i], out>>]
    /\ UNCHANGED <<pgraph, ppc>>
    /\ UNCHANGED varsNotProp

\* the queue is empty: "qat analysis over"
PropOver ==
    /\ ppc = "loop"
    /\ qat_analysis_queue = <<>>
    /\ ppc' = "over"
    /\ UNCHANGED <<pgraph, qat_analysis_queue, visited, quantized, graph_quantized>>
    /\ UNCHANGED varsNotProp

NextProp == PropTrace \/ PropSeed \/ PropDequeue \/ PropOver

-----------------------------------------------------------------------------
(* The fusion matcher: QATQuantizer.is_fusable, called on every forward    *)
(* node in reverse order with one shared custom_data.  A node is           *)
(* [type, prev, module, quantized]: type is type(node.module), or the kind *)
(* of a TraceFunction; prev is node.prev_nodes; module identifies the      *)
(* module object, which several nodes may share.                           *)

\* a rule set with a rule that names one operator type twice
RULES_REPEATED == { <<"ReLU", "ReLU">>, <<"Conv2d", "ReLU">> }

\* sorted(rules, key=len, reverse=True) inserted into an empty trie
RECURSIVE Compile(_, _)
Compile(rules, trie) ==
    IF rules = {} THEN trie
    ELSE LET rule == CHOOSE r \in rules : \A o \in rules : Len(o) <= Len(r)
         IN  Compile(rules \ {rule}, InsertRule(trie, rule))

QatTrie == Compile(FUSE_RULE_LIST, EmptyTrie)
ExtraTrie == Compile(FUSE_RULE_LIST_EXTRA, EmptyTrie)
RepeatedTrie == Compile(RULES_REPEATED, EmptyTrie)

\* load_processed_ptq_rules() with torch 1.8
PtqTrie == Compile(RuleSet("ptq", 8), EmptyTrie)

\* the call sites: prepare_qat_prep (the QAT rules, quantized nodes only,
\* original module names) and rewrite_quantize_graph (the extra rules, any
\* node, unique node names); "repeated" is prepare_qat_prep's call with
\* another rule trie
FuseCalls == {"qat", "extra", "repeated"}

CurrentRules(call) ==
    CASE call = "qat" -> QatTrie
      [] call = "ptq" -> PtqTrie
      [] call = "extra" -> ExtraTrie
      [] OTHER -> RepeatedTrie

CurrentRuleSet(call) ==
    CASE call = "qat" -> FUSE_RULE_LIST
      [] call = "ptq" -> RuleSet("ptq", 8)
      [] call = "extra" -> FUSE_RULE_LIST_EXTRA
      [] OTHER -> RULES_REPEATED

check_node_quantized(call) == call # "extra"
use_original_name(call) == call # "extra"

\* the operator types of the graphs matched against a rule trie
FuseTypes(call) ==
    CASE call = "qat" -> {"Conv2d", "BatchNorm2d", "ReLU"}
      [] call = "extra" -> {"add", "BatchNorm2d", "ReLU6"}
      [] OTHER -> {"Conv2d", "ReLU"}

\* the nodes the tracer may add after the nodes of g: the first is the
\* input; a later one has one predecessor, or the node before it and the
\* input as its two operands; a module node has a module of its own or is
\* a further call of the module of the latest earlier node of its type; a
\* node after a quantized node is quantized, as the propagator leaves it
FuseNodeChoices(g, call) ==
    IF g = <<>>
    THEN {[type |-> "input", prev |-> <<>>, module |-> 1, quantized |-> FALSE]}
    ELSE LET j == Len(g) + 1
             flags(pv) ==
                 IF ~check_node_quantized(call) THEN {FALSE}
                 ELSE IF g[pv[1]].quantized THEN {TRUE} ELSE BOOLEAN
             modules(t) ==
                 IF use_original_name(call)
                 THEN {j} \cup {g[i].module : i \in {k \in 1..Len(g) :
                                 /\ g[k].type = t
                                 /\ \A l \in (k + 1)..Len(g) : g[l].type # t}}
                 ELSE {j}
             prevs == {<<p>> : p \in 1..(j - 1)} \cup {<<j - 1, 1>> : p \in 2..(j - 1)}
         IN  UNION { { [type |-> t, prev |-> pv, module |-> m, quantized |-> q] :
                         m \in modules(t), q \in flags(pv) } :
                     t \in FuseTypes(call), pv \in prevs }

\* the name is_fusable gives node n
NodeName(g, call, n) == IF use_original_name(call) THEN g[n].module ELSE n

\* the while loop of is_fusable from cur_node on: path is the types walked
\* so far (current_rules is the trie below it); the value is final_names
RECURSIVE FusableWalkFirstTerminal(_, _, _, _, _, _, _)
FusableWalkFirstTerminal(g, call, seen, cur, path, names, final) ==
    LET path2 == Append(path, g[cur].type)
        cur_name == NodeName(g, call, cur)
        names2 == Append(names, cur_name)
        final2 == IF CurrentRules(call)[path2] /\ final = <<>> THEN names2 ELSE final
    IN  IF ~TrieHas(CurrentRules(call), path2) THEN final
        ELSE IF cur_name \in seen THEN final
        ELSE IF Len(g[cur].prev) = 0 THEN final
        ELSE IF Len(g[cur].prev) # 1 THEN final2
        ELSE FusableWalkFirstTerminal(g, call, seen, g[cur].prev[1], path2, names2, final2)

RECURSIVE FusableWalkUnchecked(_, _, _, _, _, _, _)
FusableWalkUnchecked(g, call, seen, cur, path, names, final) ==
    LET path2 == Append(path, g[cur].type)
        cur_name == NodeName(g, call, cur)
        names2 == Append(names, cur_name)
        final2 == IF CurrentRules(call)[path2] THEN names2 ELSE final
    IN  IF ~TrieHas(CurrentRules(call), path2) THEN final
        ELSE IF Len(g[cur].prev) = 0 THEN final
        ELSE IF Len(g[cur].prev) # 1 THEN final2
        ELSE FusableWalkUnchecked(g, call, seen, g[cur].prev[1], path2, names2, final2)

RECURSIVE FusableWalk(_, _, _, _, _, _, _)
FusableWalk(g, call, seen, cur, path, names, final) ==
    LET path2 == Append(path, g[cur].type)
        cur_name == NodeName(g, call, cur)
        names2 == Append(names, cur_name)
        final2 == IF CurrentRules(call)[path2] THEN names2 ELSE final
    IN  IF ~TrieHas(CurrentRules(call), path2) THEN final
        ELSE IF cur_name \in seen THEN final
        ELSE IF Len(g[cur].prev) = 0 THEN final
        ELSE IF Len(g[cur].prev) # 1 THEN final2
        ELSE FusableWalk(g, call, seen, g[cur].prev[1], path2, names2, final2)

\* is_fusable(node, custom_data, ...): the chain it appends to
\* custom_data[0], earliest node first; <<>> when it returns False
is_fusable(g, call, seen, node) ==
    IF check_node_quantized(call) /\ ~g[node].quantized
    THEN <<>>
    ELSE Reverse(FusableWalk(g, call, seen, node, <<>>, <<>>, <<>>))

IdleFuse ==
    /\ fgraph = <<>>
    /\ frules = "qat"
    /\ fpos = 0
    /\ quant_list = <<>>
    /\ consumed = {}
    /\ fpc = "idle"

InitFuse ==
    /\ fgraph = <<>>
    /\ frules \in FuseCalls
    /\ fpos = 0
    /\ quant_list = <<>>
    /\ consumed = {}
    /\ fpc = "trace"

\* the tracer adds one node to the graph
FuseTrace ==
    /\ fpc = "trace"
    /\ Len(fgraph) < MaxFuseNodes
    /\ \E c \in FuseNodeChoices(fgraph, frules) : fgraph' = Append(fgraph, c)
    /\ UNCHANGED <<frules, fpos, quant_list, consumed, fpc>>
    /\ UNCHANGED varsNotFuse

\* custom_data = ([], set()); graph.filter_forward_nodes(is_fusable,
\* custom_data, reverse=True) starts at the last node
FuseBegin ==
    /\ fpc = "trace"
    /\ fgraph # <<>>
    /\ fpc' = "filter"
    /\ fpos' = Len(fgraph)
    /\ quant_list' = <<>>
    /\ consumed' = {}
    /\ UNCHANGED <<fgraph, frules>>
    /\ UNCHANGED varsNotFuse

\* filter_forward_nodes calls is_fusable on the next node
FuseCall ==
    /\ fpc = "filter"
    /\ fpos >= 1
    /\ LET final_names == is_fusable(fgraph, frules, consumed, fpos)
       IN  IF Len(final_names) > 0
           THEN /\ quant_list' = Append(quant_list, final_names)
                /\ consumed' = consumed \cup {final_names[i] : i \in 1..Len(final_names)}
           ELSE UNCHANGED <<quant_list, consumed>>
    /\ fpos' = fpos - 1
    /\ UNCHANGED <<fgraph, frules, fpc>>
    /\ UNCHANGED varsNotFuse

\* every node has been visited
FuseReturn ==
    /\ fpc = "filter"
    /\ fpos = 0
    /\ fpc' = "done"
    /\ UNCHANGED <<fgraph, frules, fpos, quant_list, consumed>>
    /\ UNCHANGED varsNotFuse

NextFuse == FuseTrace \/ FuseBegin \/ FuseCall \/ FuseReturn

-----------------------------------------------------------------------------
(* The graph rewrite: QATQuantizer.rewrite_quantize_graph.  A graph is     *)
(* [nodes, order]: nodes maps a node to [kind, func_type, args, prev] and  *)
(* order lists the nodes in forward order.  kind is the module class or    *)
(* the kind of a TraceFunction; args are the operands, <<"t", n>> for the  *)
(* output tensor of node n and <<"k", c>> for the literal c; prev is       *)
(* node.prev_nodes.  Every tensor is float32.  A removed node keeps its    *)
(* place in nodes with kind "removed" and leaves order.  aliases is what   *)
(* get_aliases() of a TraceFunction returns, <<>> standing for None, a     *)
(* tensor or a node being named by the number of the node; inplace is the  *)
(* inplace attribute of a module; rev_index is the rev_index of an output  *)
(* node; name is what module_unique_name_dict holds for the module, <<>>   *)
(* where the model does not follow the name; ndim is the number of         *)
(* dimensions of the output tensor, 4 where a graph does not say; state    *)
(* names the state_dict of a module, 0 where a graph does not say.         *)

RwNode(kind, func_type, args, prev) ==
    [kind |-> kind, func_type |-> func_type, args |-> args, prev |-> prev,
     aliases |-> <<>>, inplace |-> FALSE, rev_index |-> FALSE, name |-> <<>>,
     ndim |-> 4, state |-> 0]

ModuleKinds == {"Conv2d", "BatchNorm2d", "ReLU", "ReLU6"}

\* node.prev_tensors, each tensor named by the node that produces it
PrevTensors(node) ==
    LET ts == SelectSeq(node.args, LAMBDA a : a[1] = "t")
    IN  [i \in 1..Len(ts) |-> ts[i][2]]

\* args_string_no_self parsed as a number: the literal operand
OtherArg(node) ==
    LET ks == SelectSeq(node.args, LAMBDA a : a[1] = "k")
    IN  ks[1][2]

\* node.next_nodes, in forward order
RwNextNodes(G, n) ==
    SelectSeq(G.order, LAMBDA m : \E i \in 1..Len(G.nodes[m].prev) : G.nodes[m].prev[i] = n)

ReplaceIn(seq, old, new) ==
    [i \in 1..Len(seq) |-> IF seq[i] = old THEN new ELSE seq[i]]

PositionIn(seq, x) == CHOOSE i \in 1..Len(seq) : seq[i] = x

\* seq with x put in as its element number pos
InsertAt(seq, pos, x) ==
    [i \in 1..(Len(seq) + 1) |->
        IF i < pos THEN seq[i] ELSE IF i = pos THEN x ELSE seq[i - 1]]

\* graph.insert_after(node, module): the new node takes over the consumers
\* of node
InsertAfter(G, n, kind) ==
    LET m == Len(G.nodes) + 1
    IN  [nodes |-> [i \in 1..m |->
                      IF i = m
                      THEN [RwNode(kind, "forward", << <<"t", n>> >>, <<n>>)
                              EXCEPT !.ndim = G.nodes[n].ndim]
                      ELSE [G.nodes[i] EXCEPT
                              !.prev = ReplaceIn(@, n, m),
                              !.args = ReplaceIn(@, <<"t", n>>, <<"t", m>>)]],
         order |-> InsertAt(G.order, PositionIn(G.order, n) + 1, m)]

\* graph.insert_before(node, module, move_idx=True): the new node takes over
\* the operands of node
InsertBefore(G, n, kind) ==
    LET m == Len(G.nodes) + 1
    IN  [nodes |-> [i \in 1..m |->
                      IF i = m
                      THEN [RwNode(kind, "forward", G.nodes[n].args, G.nodes[n].prev)
                              EXCEPT !.ndim = G.nodes[G.nodes[n].prev[1]].ndim]
                      ELSE IF i = n
                      THEN [G.nodes[n] EXCEPT !.prev = <<m>>, !.args = << <<"t", m>> >>]
                      ELSE G.nodes[i]],
         order |-> InsertAt(G.order, PositionIn(G.order, n), m)]

\* graph.insert_between(prev, next, module, tensors): the new node sits on
\* the edge from prev to next and next reads its output instead
InsertBetween(G, p, n, new) ==
    LET m == Len(G.nodes) + 1
    IN  [nodes |-> [i \in 1..m |->
                      IF i = m
                      THEN [new EXCEPT !.prev = <<p>>]
                      ELSE IF i = n
                      THEN [G.nodes[n] EXCEPT
                              !.prev = ReplaceIn(@, p, m),
                              !.args = ReplaceIn(@, <<"t", p>>, <<"t", m>>)]
                      ELSE G.nodes[i]],
         order |-> InsertAt(G.order, PositionIn(G.order, n), m)]

\* graph.remove_node(node): the consumers of node read its operand instead
RemoveNode(G, n) ==
    LET p == G.nodes[n].prev[1]
    IN  [nodes |-> [i \in 1..Len(G.nodes) |->
                      IF i = n
                      THEN RwNode("removed", "", <<>>, <<>>)
                      ELSE [G.nodes[i] EXCEPT
                              !.prev = ReplaceIn(@, n, p),
                              !.args = ReplaceIn(@, <<"t", n>>, <<"t", p>>)]],
         order |-> SelectSeq(G.order, LAMBDA x : x # n)]

\* graph.filter_forward_nodes for a predicate on the kind
NodesOfKind(G, kinds) == SelectSeq(G.order, LAMBDA n : G.nodes[n].kind \in kinds)

DigitChars == <<"0", "1", "2", "3", "4", "5", "6", "7", "8", "9">>

\* f'{idx}': the decimal digits of a natural number
RECURSIVE FormatInt(_)
FormatInt(n) ==
    IF n < 10 THEN <<DigitChars[n + 1]>>
    ELSE FormatInt(n \div 10) \o <<DigitChars[(n % 10) + 1]>>

\* f'fake_quant_{idx}'
FakeQuantName(idx) == <<"fake_quant_">> \o FormatInt(idx)

\* f'fake_dequant_{idx}'
FakeDequantName(idx) == <<"fake_dequant_">> \o FormatInt(idx)

\* the name without the position of the producer
FakeDequantRevNameNoRevIdx(idx, rev_idx) == FakeDequantName(idx)

\* f'fake_dequant_{idx}_{rev_idx}'
FakeDequantRevName(idx, rev_idx) ==
    <<"fake_dequant_">> \o FormatInt(idx) \o <<"_">> \o FormatInt(rev_idx)

\* graph.module_unique_name_dict[id(module)] = name, for the module of the
\* node inserted last
Named(G, name) == [G EXCEPT !.nodes[Len(G.nodes)].name = name]

\* _is_extra_constant_nodes: the functions that create a tensor
creation_func_names == {"zeros"}

\* graph.input_nodes + graph.constant_nodes + extra_constant_nodes
InputAndConstantNodes(G) ==
    NodesOfKind(G, {"input"}) \o NodesOfKind(G, {"constant"})
        \o NodesOfKind(G, creation_func_names)

\* First: a QuantStub after every input and constant, the nodes taken last
\* to first; inputs[i] is the node that enumerate() numbers i - 1
RECURSIVE InsertQuantStubs(_, _, _)
InsertQuantStubs(G, inputs, i) ==
    IF i = 0 THEN G
    ELSE InsertQuantStubs(Named(InsertAfter(G, inputs[i], "QuantStub"),
                                FakeQuantName(i - 1)),
                          inputs, i - 1)

\* graph.insert_before(node, modules, move_idx=True) for one module of the
\* list: the new node sits between the producer number k and the output
InsertBeforeAt(G, n, k, kind) ==
    LET m == Len(G.nodes) + 1
        p == G.nodes[n].prev[k]
        prev == [G.nodes[n].prev EXCEPT ![k] = m]
    IN  [nodes |-> [i \in 1..m |->
                      IF i = m
                      THEN [RwNode(kind, "forward", << <<"t", p>> >>, <<p>>)
                              EXCEPT !.ndim = G.nodes[p].ndim]
                      ELSE IF i = n
                      THEN [G.nodes[n] EXCEPT
                              !.prev = prev,
                              !.args = [j \in 1..Len(prev) |-> <<"t", prev[j]>>]]
                      ELSE G.nodes[i]],
         order |-> InsertAt(G.order, PositionIn(G.order, n), m)]

\* `if node.rev_index`: a DeQuantStub for every producer of the output
RECURSIVE InsertDeQuantStubsRev(_, _, _, _)
InsertDeQuantStubsRev(G, node, idx, k) ==
    IF k > Len(G.nodes[node].prev) THEN G
    ELSE InsertDeQuantStubsRev(
             Named(InsertBeforeAt(G, node, k, "DeQuantStub"),
                   FakeDequantRevName(idx, k - 1)),
             node, idx, k + 1)

\* a QuantStub before every output
RECURSIVE InsertQuantStubsBeforeOutputs(_, _, _)
InsertQuantStubsBeforeOutputs(G, outputs, i) ==
    IF i > Len(outputs) THEN G
    ELSE InsertQuantStubsBeforeOutputs(InsertBefore(G, outputs[i], "QuantStub"),
                                       outputs, i + 1)

\* Second: a DeQuantStub before every output
RECURSIVE InsertDeQuantStubs(_, _, _)
InsertDeQuantStubs(G, outputs, i) ==
    IF i > Len(outputs) THEN G
    ELSE InsertDeQuantStubs(
             IF G.nodes[outputs[i]].rev_index
             THEN InsertDeQuantStubsRev(G, outputs[i], i - 1, 1)
             ELSE Named(InsertBefore(G, outputs[i], "DeQuantStub"),
                        FakeDequantName(i - 1)),
             outputs, i + 1)

\* neg(x) becomes mul(x, -1.0)
RECURSIVE RewriteNegs(_, _, _)
RewriteNegs(G, neg_nodes, i) ==
    IF i > Len(neg_nodes) THEN G
    ELSE LET n == neg_nodes[i]
         IN  RewriteNegs(
                 [G EXCEPT !.nodes[n] =
                     [@ EXCEPT !.func_type = "__mul__", !.kind = "mul",
                               !.args = << <<"t", PrevTensors(G.nodes[n])[1]>>,
                                           <<"k", -1>> >>]],
                 neg_nodes, i + 1)

(* Numbers written as text.  args_string_no_self is a sequence of          *)
(* characters; a number is the fraction <<numerator, denominator>> in      *)
(* lowest terms with a positive denominator.  A conversion yields          *)
(* [err, val]: err is "" and val the number, or err names the exception.   *)
IsDigit(c) == \E i \in 1..Len(DigitChars) : DigitChars[i] = c

DigitVal(c) == (CHOOSE i \in 1..Len(DigitChars) : DigitChars[i] = c) - 1

IsDigits(s) == Len(s) > 0 /\ \A i \in 1..Len(s) : IsDigit(s[i])

RECURSIVE NatOf(_)
NatOf(s) ==
    IF s = <<>> THEN 0
    ELSE 10 * NatOf(SubSeq(s, 1, Len(s) - 1)) + DigitVal(s[Len(s)])

RECURSIVE Pow10(_)
Pow10(k) == IF k = 0 THEN 1 ELSE 10 * Pow10(k - 1)

RECURSIVE Gcd(_, _)
Gcd(a, b) == IF b = 0 THEN a ELSE Gcd(b, a % b)

Abs(a) == IF a < 0 THEN -a ELSE a

\* the fraction n / d (d # 0) in lowest terms
Rat(n, d) ==
    LET g == Gcd(Abs(n), Abs(d))
        s == IF d < 0 THEN -1 ELSE 1
    IN  <<(s * n) \div g, (s * d) \div g>>

RatMul(a, b) == Rat(a[1] * b[1], a[2] * b[2])

RatDiv(a, b) == Rat(a[1] * b[2], a[2] * b[1])

Contains(s, c) == \E i \in 1..Len(s) : s[i] = c

\* the place of the first c in s, 0 when there is none
IndexOf(s, c) ==
    IF Contains(s, c) THEN CHOOSE i \in 1..Len(s) : s[i] = c /\ \A j \in 1..(i - 1) : s[j] # c
    ELSE 0

SignOf(s) == IF s # <<>> /\ s[1] = "-" THEN -1 ELSE 1

Unsigned(s) == IF s # <<>> /\ s[1] \in {"+", "-"} THEN Tail(s) ELSE s

ValueError == [err |-> "ValueError", val |-> <<0, 1>>]

ZeroDivisionError == [err |-> "ZeroDivisionError", val |-> <<0, 1>>]

Number(v) == [err |-> "", val |-> v]

\* int(s): an optional sign and decimal digits, nothing else
PyInt(s) ==
    IF IsDigits(Unsigned(s)) THEN Number(Rat(SignOf(s) * NatOf(Unsigned(s)), 1))
    ELSE ValueError

\* float(s): an optional sign, digits with an optional point among them,
\* and an optional exponent: e, an optional sign and digits
PyFloat(s) ==
    LET u == Unsigned(s)
        epos == IndexOf(u, "e")
        mantissa == IF epos = 0 THEN u ELSE SubSeq(u, 1, epos - 1)
        exponent == IF epos = 0 THEN <<"0">> ELSE SubSeq(u, epos + 1, Len(u))
        dot == IndexOf(mantissa, ".")
        whole == IF dot = 0 THEN mantissa ELSE SubSeq(mantissa, 1, dot - 1)
        frac == IF dot = 0 THEN <<>> ELSE SubSeq(mantissa, dot + 1, Len(mantissa))
        digits == whole \o frac
        e == SignOf(exponent) * NatOf(Unsigned(exponent)) - Len(frac)
    IN  IF IsDigits(digits) /\ IsDigits(Unsigned(exponent))
        THEN Number(IF e >= 0 THEN Rat(SignOf(s) * NatOf(digits) * Pow10(e), 1)
                    ELSE Rat(SignOf(s) * NatOf(digits), Pow10(-e)))
        ELSE ValueError

\* 1.0 / other_arg
Reciprocal(other_arg) ==
    IF other_arg.val[1] = 0 THEN ZeroDivisionError
    ELSE Number(RatDiv(<<1, 1>>, other_arg.val))

\* args_string_no_self: the written operand of a node with one tensor, the
\* name of the other tensor for a node with two
ArgsString(node) ==
    LET ss == SelectSeq(node.args, LAMBDA a : a[1] = "s")
    IN  IF ss = <<>> THEN <<"x">> ELSE ss[1][2]

\* _is_div_node, every tensor being float32
IsDivNode(G, n) ==
    LET node == G.nodes[n]
    IN  /\ (node.kind = "truediv" \/ node.func_type \in {"div", "div_"})
        /\ Len(PrevTensors(node)) = 1
        /\ node.func_type # "__rtruediv__"
        /\ G.nodes[node.prev[1]].kind \notin {"size", "shape"}

InplaceDivs == {"__itruediv__", "itruediv", "div_"}

\* the body of `for idx, node in enumerate(div_nodes)`: [G, raised], raised
\* naming the exception that leaves the loop, "" when there is none
RewriteDiv(G, n) ==
    LET node == G.nodes[n]
        op_type == node.func_type
        inplace == op_type \in InplaceDivs
        H == [G EXCEPT !.nodes[n] =
                 [@ EXCEPT !.func_type = IF inplace THEN "__imul__" ELSE "__mul__",
                           !.kind = "mul"]]
        other_arg == IF Contains(ArgsString(node), ".")
                     THEN PyFloat(ArgsString(node))
                     ELSE PyInt(ArgsString(node))
        inverse == Reciprocal(other_arg)
    IN  IF other_arg.err # "" THEN [G |-> H, raised |-> other_arg.err]
        ELSE IF inverse.err # "" THEN [G |-> H, raised |-> inverse.err]
        ELSE [G |-> [H EXCEPT !.nodes[n].args =
                        << <<"t", PrevTensors(node)[1]>>, <<"k", inverse.val>> >>],
              raised |-> ""]

RECURSIVE RewriteDivs(_, _, _)
RewriteDivs(G, div_nodes, i) ==
    IF i > Len(div_nodes) THEN [G |-> G, raised |-> ""]
    ELSE LET R == RewriteDiv(G, div_nodes[i])
         IN  IF R.raised # "" THEN R ELSE RewriteDivs(R.G, div_nodes, i + 1)

\* the rewrite of sub(a, b) that negates its first operand
SubTwoTensorsNegatesFirst(G, n) ==
    LET node == G.nodes[n]
        current_tensor == PrevTensors(node)[1]
        input_node == node.prev[1]
        input_tensor == PrevTensors(node)[1]
        trace_func == RwNode("mul", "__mul__", << <<"t", input_tensor>>, <<"k", -1>> >>, <<>>)
        H == InsertBetween(G, input_node, n, trace_func)
        output_tensor == Len(H.nodes)
    IN  [H EXCEPT !.nodes[n] =
            [@ EXCEPT !.func_type = "__add__", !.kind = "add",
                      !.args = << <<"t", PrevTensors(node)[2]>>, <<"t", output_tensor>> >>]]

\* sub(a, b) on two tensors of two producers: mul(b, -1) goes between the
\* producer of b and the node, which becomes add(a, that)
SubTwoTensors(G, n) ==
    LET node == G.nodes[n]
        current_tensor == PrevTensors(node)[1]
        input_node == node.prev[2]
        input_tensor == PrevTensors(node)[2]
        trace_func == RwNode("mul", "__mul__", << <<"t", input_tensor>>, <<"k", -1>> >>, <<>>)
        H == InsertBetween(G, input_node, n, trace_func)
        output_tensor == Len(H.nodes)
    IN  [H EXCEPT !.nodes[n] =
            [@ EXCEPT !.func_type = "__add__", !.kind = "add",
                      !.args = << <<"t", current_tensor>>, <<"t", output_tensor>> >>]]

\* sub(a, c) with a literal c becomes add(a, -c)
SubLiteral(G, n) ==
    LET node == G.nodes[n]
    IN  [G EXCEPT !.nodes[n] =
            [@ EXCEPT !.func_type = "__add__", !.kind = "add",
                      !.args = << <<"t", PrevTensors(node)[1]>>, <<"k", -OtherArg(node)>> >>]]

\* c - a, the reflected form with a literal: mul(a, -1) goes between the
\* producer of a and the node, which becomes __radd__
RsubLiteral(G, n) ==
    LET node == G.nodes[n]
        input_node == node.prev[1]
        input_tensor == PrevTensors(node)[1]
        trace_func == RwNode("mul", "__mul__", << <<"t", input_tensor>>, <<"k", -1>> >>, <<>>)
        H == InsertBetween(G, input_node, n, trace_func)
    IN  [H EXCEPT !.nodes[n] = [@ EXCEPT !.func_type = "__radd__", !.kind = "add"]]

\* the body of `for idx, node in enumerate(sub_nodes)`
RewriteSub(G, n) ==
    LET node == G.nodes[n]
    IN  IF Len(PrevTensors(node)) = 1 /\ node.func_type # "__rsub__"
        THEN SubLiteral(G, n)
        ELSE IF Len(PrevTensors(node)) = 2 /\ Len(node.prev) = 2
        THEN SubTwoTensors(G, n)
        ELSE IF node.func_type = "__rsub__" /\ Len(PrevTensors(node)) = 1
        THEN RsubLiteral(G, n)
        ELSE G

\* Third (sub): every node of sub_nodes is rewritten
RECURSIVE RewriteSubs(_, _, _)
RewriteSubs(G, sub_nodes, i) ==
    IF i > Len(sub_nodes) THEN G
    ELSE RewriteSubs(RewriteSub(G, sub_nodes[i]), sub_nodes, i + 1)

(* torch.stack becomes torch.unsqueeze and torch.cat.  Where a producer    *)
(* has several output tensors, output number k of node n is written        *)
(* <<"t", n, k>>.                                                          *)

\* _is_stack_node, every tensor being float32
IsStackNode(G, n) == G.nodes[n].func_type = "stack" /\ G.nodes[n].kind = "stack"

\* getattr(node.module, 'args_string_no_self', ''): what is written after
\* the tensors
StackArgs(node) ==
    LET ss == SelectSeq(node.args, LAMBDA a : a[1] = "s")
    IN  IF ss = <<>> THEN <<>> ELSE ss[1][2]

\* dim is taken as 0 whatever is written
StackDimZero(args) == Number(<<0, 1>>)

\* dim of the stack: [err, val]
StackDim(args) ==
    IF Contains(args, ",") THEN [err |-> "AssertionError", val |-> <<0, 1>>]
    ELSE IF Len(args) > 0
    THEN IF Contains(args, "=")
         THEN LET eq == IndexOf(args, "=")
                  k == SubSeq(args, 1, eq - 1)
                  v == SubSeq(args, eq + 1, Len(args))
              IN  IF k # <<"d", "i", "m">>
                  THEN [err |-> "AssertionError", val |-> <<0, 1>>]
                  ELSE PyInt(v)
         ELSE PyInt(args)
    ELSE Number(<<0, 1>>)

\* the tensors among the operands of a node
TensorArgs(node) == SelectSeq(node.args, LAMBDA a : a[1] = "t")

\* graph.insert_between(n, node, trace_func, next_tensors) for the
\* unsqueeze of tensor t: node reads the new tensor where it read t
InsertUnsqueeze(G, p, n, t, dim) ==
    LET m == Len(G.nodes) + 1
    IN  [nodes |-> [i \in 1..m |->
                      IF i = m
                      THEN RwNode("unsqueeze", "unsqueeze", <<t, <<"k", dim>> >>, <<p>>)
                      ELSE IF i = n
                      THEN [G.nodes[n] EXCEPT
                              !.prev = ReplaceIn(@, p, m),
                              !.args = ReplaceIn(@, t, <<"t", m>>)]
                      ELSE G.nodes[i]],
         order |-> InsertAt(G.order, PositionIn(G.order, n), m)]

\* for n in node.prev_nodes, from producer number j of the list on:
\* [G, raised]
RECURSIVE UnsqueezeOperands(_, _, _, _, _)
UnsqueezeOperands(G, node, prev_nodes, j, dim) ==
    IF j > Len(prev_nodes) THEN [G |-> G, raised |-> ""]
    ELSE LET n == prev_nodes[j]
             shared_tensors == {a \in Range(TensorArgs(G.nodes[node])) : a[2] = n}
         IN  IF Cardinality(shared_tensors) = 0
             THEN UnsqueezeOperands(G, node, prev_nodes, j + 1, dim)
             ELSE IF Cardinality(shared_tensors) > 1
             THEN [G |-> G, raised |-> "AssertionError"]
             ELSE UnsqueezeOperands(
                      InsertUnsqueeze(G, n, node, CHOOSE a \in shared_tensors : TRUE, dim),
                      node, prev_nodes, j + 1, dim)

\* the body of `for idx, node in enumerate(stack_nodes)`: [G, raised]
RewriteStack(G, node) ==
    LET dim == StackDim(StackArgs(G.nodes[node]))
        R == UnsqueezeOperands(G, node, G.nodes[node].prev, 1, dim.val[1])
    IN  IF dim.err # "" THEN [G |-> G, raised |-> dim.err]
        ELSE IF R.raised # "" THEN R
        ELSE [G |-> [R.G EXCEPT !.nodes[node] =
                        [@ EXCEPT !.func_type = "cat", !.kind = "cat"]],
              raised |-> ""]

RECURSIVE RewriteStacks(_, _, _)
RewriteStacks(G, stack_nodes, i) ==
    IF i > Len(stack_nodes) THEN [G |-> G, raised |-> ""]
    ELSE LET R == RewriteStack(G, stack_nodes[i])
         IN  IF R.raised # "" THEN R ELSE RewriteStacks(R.G, stack_nodes, i + 1)

\* op_type of a convertible add or mul node
OpType(G, n) ==
    LET node == G.nodes[n]
    IN  IF Len(PrevTensors(node)) = 2
        THEN IF G.nodes[G.nodes[node.prev[2]].prev[1]].kind \notin {"shape", "size"}
             THEN node.kind
             ELSE node.kind \o "_scalar"
        ELSE node.kind \o "_scalar"

\* ', ' in args_string_no_self
ContainsCommaSpace(s) == \E i \in 1..(Len(s) - 1) : s[i] = "," /\ s[i + 1] = " "

\* the walk back from the first predecessor of an in-place add or mul:
\* the aliases of the node once the queue q is empty
RECURSIVE AliasWalk(_, _, _)
AliasWalk(G, q, aliases) ==
    IF q = <<>> THEN aliases
    ELSE LET n == Head(q)
             node == G.nodes[n]
         IN  IF node.func_type \notin {"forward", "input", "output"}
             THEN AliasWalk(G, Tail(q), node.aliases \o aliases)
             ELSE IF node.inplace
             THEN AliasWalk(G, Append(Tail(q), node.prev[1]), <<node.prev[1]>> \o aliases)
             ELSE AliasWalk(G, Tail(q), aliases)

\* the body of `for idx, node in enumerate(convertible_nodes)` for an add
\* or a mul node: [G, raised]
Promote(G, n) ==
    LET node == G.nodes[n]
        prev_tensor_size == Len(PrevTensors(node))
        op_type == OpType(G, n)
        \* node.module.func_type = op_type
        func_type == op_type
        aliases == IF func_type \in {"__iadd__", "__imul__", "add_", "mul_"}
                   THEN AliasWalk(G, <<node.prev[1]>>, <<n>>)
                   ELSE node.aliases
        H == [G EXCEPT !.nodes[n] = [@ EXCEPT !.func_type = func_type, !.aliases = aliases]]
        s == ArgsString(node)
        other_arg == IF Contains(s, ".") \/ Contains(s, "e") THEN PyFloat(s) ELSE PyInt(s)
    IN  IF func_type \in {"__radd__", "__rmul__"}
        THEN IF Contains(s, "=") \/ ContainsCommaSpace(s)
             THEN [G |-> H, raised |-> "AssertionError"]
             ELSE IF prev_tensor_size = 1
             THEN IF other_arg.err # "" THEN [G |-> H, raised |-> other_arg.err]
                  ELSE [G |-> [H EXCEPT !.nodes[n].args =
                                  << <<"t", PrevTensors(node)[1]>>, <<"k", other_arg.val>> >>],
                        raised |-> ""]
             ELSE [G |-> [H EXCEPT !.nodes[n].args =
                             << <<"t", PrevTensors(node)[2]>>, <<"t", PrevTensors(node)[1]>> >>],
                   raised |-> ""]
        ELSE [G |-> H, raised |-> ""]

\* add and mul become calls of a FloatFunctional
RECURSIVE PromoteAll(_, _, _)
PromoteAll(G, convertible_nodes, i) ==
    IF i > Len(convertible_nodes) THEN [G |-> G, raised |-> ""]
    ELSE LET R == Promote(G, convertible_nodes[i])
         IN  IF R.raised # "" THEN R ELSE PromoteAll(R.G, convertible_nodes, i + 1)

\* the place of node n in the forward order
ForwardOrder(G, n) == PositionIn(G.order, n)

IsTraceFunction(node) == node.func_type \notin {"forward", "input", "output", ""}

\* inplace of the relu that follows an add
ReluInplace(next) ==
    IF IsTraceFunction(next)
    THEN next.func_type = "relu_" \/ Contains(ArgsString(next), "True")
    ELSE next.inplace

\* the inplace check of _is_add_relu_fusable_node: the walk back from the
\* first predecessor of the add finds no consumer after the add
RECURSIVE NoLaterUse(_, _, _)
NoLaterUse(G, n, q) ==
    IF q = <<>> THEN TRUE
    ELSE LET m == Head(q)
             node == G.nodes[m]
             next_orders == {ForwardOrder(G, x) : x \in Range(RwNextNodes(G, m))}
             last_order == Max(next_orders)
         IN  IF last_order > ForwardOrder(G, n) THEN FALSE
             ELSE IF IsTraceFunction(node) /\ node.aliases # <<>>
             THEN NoLaterUse(G, n, Append(Tail(q), node.prev[1]))
             ELSE IF node.inplace
             THEN NoLaterUse(G, n, Append(Tail(q), node.prev[1]))
             ELSE NoLaterUse(G, n, Tail(q))

\* _is_add_relu_fusable_node
IsAddReluFusable(G, n) ==
    LET node == G.nodes[n]
        next_nodes == RwNextNodes(G, n)
        next == G.nodes[next_nodes[1]]
    IN  /\ IsTraceFunction(node)
        /\ node.kind = "add" /\ Len(next_nodes) = 1
        /\ Len(PrevTensors(node)) = 2
        /\ IF IsTraceFunction(next) THEN next.kind = "relu" ELSE next.kind = "ReLU"
        /\ (~ReluInplace(next) /\ node.aliases # <<>>) => NoLaterUse(G, n, <<node.prev[1]>>)

\* graph.fuse_nodes_to_func([node, next_node], full_name, 'add_relu',
\* 'add_relu', False) and the aliases of the fused node
FuseAddRelu(G, n) ==
    LET node == G.nodes[n]
        next_node == RwNextNodes(G, n)[1]
        inplace == ReluInplace(G.nodes[next_node])
        H == RemoveNode(G, next_node)
    IN  [H EXCEPT !.nodes[n] =
            [@ EXCEPT !.kind = "add_relu", !.func_type = "add_relu",
                      !.aliases = IF inplace
                                  THEN IF node.aliases # <<>> THEN Append(node.aliases, n)
                                       ELSE node.aliases
                                  ELSE <<>>]]

RECURSIVE FuseAddRelus(_, _, _)
FuseAddRelus(G, add_relu_fusable_nodes, i) ==
    IF i > Len(add_relu_fusable_nodes) THEN G
    ELSE FuseAddRelus(FuseAddRelu(G, add_relu_fusable_nodes[i]),
                      add_relu_fusable_nodes, i + 1)

\* the function kinds and the module classes without a quantized
\* implementation, for torch 1.7 and later
\* _is_batch_norm_1d
IsBatchNorm1d(G, n) ==
    LET node == G.nodes[n]
    IN  IF Len(node.prev) # 1 THEN FALSE
        ELSE IF G.nodes[node.prev[1]].kind \in {"conv1d", "Conv1d"} THEN FALSE
        ELSE IF IsTraceFunction(node)
        THEN node.kind = "batch_norm" /\ G.nodes[PrevTensors(node)[1]].ndim = 3
        ELSE node.kind = "BatchNorm1d"

\* f'rewritten_bn2d_{idx}'
RewrittenBn2dName(idx) == <<"rewritten_bn2d_">> \o FormatInt(idx)

\* TraceFunction('torch.unsqueeze').parse_args(tensor, 2) and
\* TraceFunction('torch.squeeze').parse_args(tensor, 2)
DimFunc(kind, t, ndim) ==
    [RwNode(kind, kind, << <<"t", t>>, <<"k", 2>> >>, <<t>>) EXCEPT !.ndim = ndim]

\* the body of the loop for a BatchNorm1d module: a BatchNorm2d with the
\* state_dict of the module takes its place, its output gets a dimension
\* more, an unsqueeze is put before it and a squeeze after it
ReplaceBatchNorm1d(G, n, idx) ==
    LET mod == G.nodes[n]
        p == mod.prev[1]
        G1 == [G EXCEPT !.nodes[n] =
                  [@ EXCEPT !.kind = "BatchNorm2d", !.name = RewrittenBn2dName(idx),
                            !.ndim = mod.ndim + 1]]
        G2 == InsertBetween(G1, p, n, DimFunc("unsqueeze", p, G.nodes[p].ndim + 1))
        G3 == InsertAfter(G2, n, "squeeze")
    IN  [G3 EXCEPT !.nodes[Len(G3.nodes)] = DimFunc("squeeze", n, mod.ndim)]

\* for idx, node in enumerate(batch_norm_1d_nodes): the loop acts on the
\* nodes whose module is a BatchNorm1d
RECURSIVE RewriteBatchNorm1d(_, _, _)
RewriteBatchNorm1d(G, batch_norm_1d_nodes, i) ==
    IF i > Len(batch_norm_1d_nodes) THEN G
    ELSE LET n == batch_norm_1d_nodes[i]
         IN  RewriteBatchNorm1d(
                 IF ~IsTraceFunction(G.nodes[n]) /\ G.nodes[n].kind = "BatchNorm1d"
                 THEN ReplaceBatchNorm1d(G, n, i - 1)
                 ELSE G,
                 batch_norm_1d_nodes, i + 1)

UnsupportedKinds ==
    {"pow", "truediv", "sqrt", "atan2", "atan", "sin", "cos", "hardsigmoid",
     "silu", "reciprocal", "exp", "layer_norm", "instance_norm", "softmax",
     "log_softmax", "mm", "matmul", "bmm"}

UnsupportedModules ==
    {"SiLU", "LSTM", "RNN", "GRU", "LayerNorm", "InstanceNorm1d",
     "InstanceNorm2d", "Hardsigmoid", "Softmax", "LogSoftmax"}

\* _is_not_quantizable
IsNotQuantizable(G, n) ==
    LET node == G.nodes[n]
    IN  IF node.kind = "const" THEN FALSE
        ELSE IF node.func_type # "forward"
        THEN IF /\ node.func_type \in {"__truediv__", "__itruediv__", "div", "div_"}
                /\ G.nodes[node.prev[1]].kind \in {"shape", "size"}
             THEN FALSE
             ELSE node.kind \in UnsupportedKinds
        ELSE node.kind \in UnsupportedModules

\* the elements of seq, each once, in the order of their first places
RECURSIVE Distinct(_)
Distinct(seq) ==
    IF seq = <<>> THEN <<>>
    ELSE LET front == Distinct(SubSeq(seq, 1, Len(seq) - 1))
             last == seq[Len(seq)]
         IN  IF \E i \in 1..Len(front) : front[i] = last THEN front
             ELSE Append(front, last)

\* prev_idx: one entry for every operand of next_node that is the output
\* tensor of node
PrevIdx(G, n, next_node) ==
    SelectSeq(PrevTensors(G.nodes[next_node]), LAMBDA t : t = n)

\* graph.insert_between(prev, next, node of the graph): next reads the
\* output of a node that is in the graph already
InsertBetweenExisting(G, p, n, m) ==
    [G EXCEPT !.nodes[n] =
        [@ EXCEPT !.prev = ReplaceIn(@, p, m),
                  !.args = ReplaceIn(@, <<"t", p>>, <<"t", m>>)]]

\* a QuantStub of its own for every consumer of the op
RECURSIVE QuantAfterUnshared(_, _, _, _, _)
QuantAfterUnshared(G, n, next_nodes, i, node_map) ==
    IF i > Len(next_nodes) THEN G
    ELSE LET fake_quant == RwNode("QuantStub", "forward", << <<"t", n>> >>, <<n>>)
         IN  QuantAfterUnshared(InsertBetween(G, n, next_nodes[i], fake_quant),
                                n, next_nodes, i + 1, node_map)

\* the QuantStub nodes after one unsupported op: one for every prev_idx
\* among its consumers; node_map maps a prev_idx to its QuantStub
RECURSIVE QuantAfter(_, _, _, _, _)
QuantAfter(G, n, next_nodes, i, node_map) ==
    IF i > Len(next_nodes) THEN G
    ELSE LET next_node == next_nodes[i]
             prev_idx == PrevIdx(G, n, next_node)
             known == {e \in node_map : e[1] = prev_idx}
         IN  IF known # {}
             THEN QuantAfter(InsertBetweenExisting(G, n, next_node, (CHOOSE e \in known : TRUE)[2]),
                             n, next_nodes, i + 1, node_map)
             ELSE LET fake_quant == RwNode("QuantStub", "forward", << <<"t", n>> >>, <<n>>)
                      H == InsertBetween(G, n, next_node, fake_quant)
                  IN  QuantAfter(H, n, next_nodes, i + 1,
                                 node_map \cup {<<prev_idx, Len(H.nodes)>>})

\* `for idx, node in enumerate(reversed(unsupported_nodes))`
RECURSIVE QuantAfterAll(_, _, _)
QuantAfterAll(G, unsupported_nodes, i) ==
    IF i = 0 THEN G
    ELSE LET n == unsupported_nodes[i]
         IN  QuantAfterAll(QuantAfter(G, n, RwNextNodes(G, n), 1, {}),
                           unsupported_nodes, i - 1)

\* the DeQuantStub nodes before one unsupported op: one for every distinct
\* node among its prev_nodes
RECURSIVE DeQuantBefore(_, _, _, _)
DeQuantBefore(G, n, prev_nodes, i) ==
    IF i > Len(prev_nodes) THEN G
    ELSE LET prev_node == prev_nodes[i]
             fake_dequant == RwNode("DeQuantStub", "forward",
                                    << <<"t", prev_node>> >>, <<prev_node>>)
         IN  DeQuantBefore(InsertBetween(G, prev_node, n, fake_dequant),
                           n, prev_nodes, i + 1)

\* `for idx, node in enumerate(unsupported_nodes)`
RECURSIVE DeQuantBeforeAll(_, _, _)
DeQuantBeforeAll(G, unsupported_nodes, i) ==
    IF i > Len(unsupported_nodes) THEN G
    ELSE LET n == unsupported_nodes[i]
         IN  DeQuantBeforeAll(DeQuantBefore(G, n, Distinct(G.nodes[n].prev), 1),
                              unsupported_nodes, i + 1)

\* the ops without a quantized implementation are put between markers
Isolate(G) ==
    LET unsupported_nodes == SelectSeq(G.order, LAMBDA n : IsNotQuantizable(G, n))
    IN  DeQuantBeforeAll(QuantAfterAll(G, unsupported_nodes, Len(unsupported_nodes)),
                         unsupported_nodes, 1)

StubKinds == {"QuantStub", "DeQuantStub"}

\* _is_consecutive_dequant_quant_nodes: the pairs (node, next_node) of a
\* marker and the first marker of the other kind that follows it
ConsecutivePairs(G) ==
    LET firstOther(n) ==
            SelectSeq(RwNextNodes(G, n),
                      LAMBDA m : /\ G.nodes[m].kind \in StubKinds
                                 /\ G.nodes[m].kind # G.nodes[n].kind)
        found == SelectSeq(G.order, LAMBDA n : /\ G.nodes[n].kind \in StubKinds
                                               /\ firstOther(n) # <<>>)
    IN  [i \in 1..Len(found) |-> <<found[i], firstOther(found[i])[1]>>]

\* every pair is removed, whatever else reads the first marker
RECURSIVE RemovePairsAlways(_, _, _)
RemovePairsAlways(G, pairs, i) ==
    IF i > Len(pairs) THEN G
    ELSE RemovePairsAlways(RemoveNode(RemoveNode(G, pairs[i][2]), pairs[i][1]),
                           pairs, i + 1)

\* a pair is removed when the first marker has one consumer
RECURSIVE RemovePairs(_, _, _)
RemovePairs(G, pairs, i) ==
    IF i > Len(pairs) THEN G
    ELSE LET node == pairs[i][1]
             next_node == pairs[i][2]
         IN  IF Len(RwNextNodes(G, node)) = 1
             THEN RemovePairs(RemoveNode(RemoveNode(G, next_node), node), pairs, i + 1)
             ELSE RemovePairs(G, pairs, i + 1)

\* the graph as is_fusable reads it
AsFuseGraph(G) ==
    [n \in 1..Len(G.nodes) |->
        [type |-> G.nodes[n].kind, prev |-> G.nodes[n].prev,
         module |-> n, quantized |-> FALSE]]

\* graph.filter_forward_nodes(is_fusable, custom_data, reverse=True):
\* custom_data after the nodes order[i], order[i - 1], ... have been visited
RECURSIVE FilterFusable(_, _, _, _, _)
FilterFusable(g, call, order, i, custom_data) ==
    IF i = 0 THEN custom_data
    ELSE LET final_names == is_fusable(g, call, custom_data[2], order[i])
         IN  FilterFusable(g, call, order, i - 1,
                 IF Len(final_names) > 0
                 THEN << Append(custom_data[1], final_names),
                         custom_data[2] \cup {final_names[k] : k \in 1..Len(final_names)} >>
                 ELSE custom_data)

\* the two insertions made in the other order: the DeQuantStub is put
\* after the node first, the QuantStub second
RECURSIVE InsertActivStubsDequantFirst(_, _, _)
InsertActivStubsDequantFirst(G, activ_names, i) ==
    IF i = 0 THEN G
    ELSE LET names == activ_names[i]
             node == names[Len(names)]
         IN  InsertActivStubsDequantFirst(
                 InsertAfter(InsertAfter(G, node, "DeQuantStub"), node, "QuantStub"),
                 activ_names, i - 1)

\* after the last node of every chain, latest chain first: a QuantStub,
\* then a DeQuantStub, each put directly after the node
RECURSIVE InsertActivStubs(_, _, _)
InsertActivStubs(G, activ_names, i) ==
    IF i = 0 THEN G
    ELSE LET names == activ_names[i]
             node == names[Len(names)]
         IN  InsertActivStubs(
                 InsertAfter(InsertAfter(G, node, "QuantStub"), node, "DeQuantStub"),
                 activ_names, i - 1)

\* the value of the output tensor of node n, val giving the values of the
\* tensors that are taken as given; a marker hands its operand on
RECURSIVE Eval(_, _, _)
Eval(G, n, val) ==
    LET node == G.nodes[n]
        arg(i) == IF node.args[i][1] = "t" THEN Eval(G, node.args[i][2], val)
                  ELSE node.args[i][2]
    IN  IF n \in DOMAIN val THEN val[n]
        ELSE CASE node.kind \in StubKinds -> arg(1)
               [] node.kind = "sub" ->
                    IF node.func_type = "__rsub__" THEN arg(2) - arg(1) ELSE arg(1) - arg(2)
               [] node.kind = "add" -> arg(1) + arg(2)
               [] node.kind = "mul" -> arg(1) * arg(2)
               [] OTHER -> 0

Rgraph == [nodes |-> rnodes, order |-> rorder]

\* the nodes the tracer may add to the graph: an input first, a second
\* input next, then Conv2d, BatchNorm2d and ReLU6 modules on one earlier
\* tensor and sub nodes: on two tensors of two producers, or on a tensor
\* and the literal 2, the reflected form included
RwNodeChoices(nodes) ==
    LET j == Len(nodes) + 1
        earlier == 1..Len(nodes)
    IN  IF j = 1 THEN {RwNode("input", "input", <<>>, <<>>)}
        ELSE (IF j = 2 THEN {RwNode("input", "input", <<>>, <<>>)} ELSE {})
             \cup {RwNode(k, "forward", << <<"t", p>> >>, <<p>>) :
                     k \in ModuleKinds \ {"ReLU"}, p \in earlier}
             \cup {RwNode("sub", "__sub__", << <<"t", pq[1]>>, <<"t", pq[2]>> >>, pq) :
                     pq \in {x \in earlier \X earlier : x[1] # x[2]}}
             \cup {RwNode("sub", f, << <<"t", p>>, <<"k", 2>> >>, <<p>>) :
                     f \in {"__sub__", "__rsub__"}, p \in earlier}

IdleRw ==
    /\ rnodes = <<>>
    /\ rorder = <<>>
    /\ rquantized = FALSE
    /\ rpc = "idle"

InitRw ==
    /\ rnodes = <<>>
    /\ rorder = <<>>
    /\ rquantized = FALSE
    /\ rpc = "trace"

\* trace(): the tracer adds the next node of the forward pass
RwTrace ==
    /\ rpc = "trace"
    /\ Len(rnodes) < MaxRwNodes
    /\ \E c \in RwNodeChoices(rnodes) :
        /\ rnodes' = Append(rnodes, c)
        /\ rorder' = Append(rorder, Len(rnodes) + 1)
    /\ UNCHANGED <<rquantized, rpc>>
    /\ UNCHANGED varsNotRw

\* trace(): the forward pass returns the last tensor
RwTraceOutput ==
    /\ rpc = "trace"
    /\ rnodes # <<>>
    /\ rnodes' = Append(rnodes, RwNode("output", "output",
                                       << <<"t", Len(rnodes)>> >>, <<Len(rnodes)>>))
    /\ rorder' = Append(rorder, Len(rnodes) + 1)
    /\ rpc' = "rewrite"
    /\ UNCHANGED rquantized
    /\ UNCHANGED varsNotRw

RwSet(G, pc) ==
    /\ rnodes' = G.nodes
    /\ rorder' = G.order
    /\ rpc' = pc
    /\ UNCHANGED rquantized
    /\ UNCHANGED varsNotRw

\* the rewrite without its test of graph.quantized
RwQuantStubsAlways ==
    /\ rpc = "rewrite"
    /\ LET inputs == InputAndConstantNodes(Rgraph)
       IN  RwSet(InsertQuantStubs(Rgraph, inputs, Len(inputs)), "dequant")

\* rewrite_quantize_graph: `if graph.quantized: return`, then First
RwQuantStubs ==
    /\ rpc = "rewrite"
    /\ IF rquantized
       THEN RwSet(Rgraph, "rewritten")
       ELSE LET inputs == InputAndConstantNodes(Rgraph)
            IN  RwSet(InsertQuantStubs(Rgraph, inputs, Len(inputs)), "dequant")

\* Second
RwDeQuantStubs ==
    /\ rpc = "dequant"
    /\ RwSet(InsertDeQuantStubs(Rgraph, NodesOfKind(Rgraph, {"output"}), 1), "neg")

\* Third: the neg nodes
RwNeg ==
    /\ rpc = "neg"
    /\ RwSet(RewriteNegs(Rgraph, NodesOfKind(Rgraph, {"neg"}), 1), "div")

\* the div nodes; an exception of the loop leaves rewrite_quantize_graph
\* with the graph as the loop had it
RwDiv ==
    /\ rpc = "div"
    /\ LET div_nodes == SelectSeq(rorder, LAMBDA n : IsDivNode(Rgraph, n))
           R == RewriteDivs(Rgraph, div_nodes, 1)
       IN  RwSet(R.G, IF R.raised # "" THEN "raised" ELSE "sub")

\* the sub nodes
RwSub ==
    /\ rpc = "sub"
    /\ RwSet(RewriteSubs(Rgraph, NodesOfKind(Rgraph, {"sub"}), 1), "stack")

\* the stack nodes; an exception of the loop leaves rewrite_quantize_graph
\* with the graph as the loop had it
RwStack ==
    /\ rpc = "stack"
    /\ LET stack_nodes == SelectSeq(rorder, LAMBDA n : IsStackNode(Rgraph, n))
           R == RewriteStacks(Rgraph, stack_nodes, 1)
       IN  RwSet(R.G, IF R.raised # "" THEN "raised" ELSE "promote")

\* add, mul and cat nodes become FloatFunctional calls; a cat node keeps
\* its kind and its func_type
RwPromote ==
    /\ rpc = "promote"
    /\ LET R == PromoteAll(Rgraph, NodesOfKind(Rgraph, {"add", "mul"}), 1)
       IN  RwSet(R.G, IF R.raised # "" THEN "raised" ELSE "addrelu")

\* an add followed by a relu alone becomes add_relu
RwAddRelu ==
    /\ rpc = "addrelu"
    /\ LET add_relu_fusable_nodes == SelectSeq(rorder, LAMBDA n : IsAddReluFusable(Rgraph, n))
       IN  RwSet(FuseAddRelus(Rgraph, add_relu_fusable_nodes, 1), "bn1d")

\* Rewrite BatchNorm1d to BatchNorm2d (the graphs hold no node the passes
\* in between select: no functional relu or dropout, no pad, .data or
\* pooling node)
RwBatchNorm1d ==
    /\ rpc = "bn1d"
    /\ LET batch_norm_1d_nodes == SelectSeq(rorder, LAMBDA n : IsBatchNorm1d(Rgraph, n))
       IN  RwSet(RewriteBatchNorm1d(Rgraph, batch_norm_1d_nodes, 1), "isolate")

\* markers around the ops without a quantized implementation
RwIsolate ==
    /\ rpc = "isolate"
    /\ RwSet(Isolate(Rgraph), "collapse")

\* consecutive markers of different kinds are removed
RwCollapse ==
    /\ rpc = "collapse"
    /\ LET pairs == ConsecutivePairs(Rgraph)
       IN  RwSet(RemovePairs(Rgraph, pairs, 1), "extra")

\* the extra rules: markers after the activations that cannot be fused
RwExtraFuse ==
    /\ rpc = "extra"
    /\ LET custom_data == FilterFusable(AsFuseGraph(Rgraph), "extra", rorder,
                                        Len(rorder), << <<>>, {} >>)
           activ_names == custom_data[1]
       IN  RwSet(InsertActivStubs(Rgraph, activ_names, Len(activ_names)), "finish")

\* graph.quantized = True; graph.recompute_forward_order()
RwFinish ==
    /\ rpc = "finish"
    /\ rquantized' = TRUE
    /\ rpc' = "rewritten"
    /\ UNCHANGED <<rnodes, rorder>>
    /\ UNCHANGED varsNotRw

NextRw ==
    \/ RwTrace \/ RwTraceOutput \/ RwQuantStubs \/ RwDeQuantStubs
    \/ RwNeg \/ RwDiv \/ RwSub \/ RwStack
    \/ RwPromote \/ RwAddRelu \/ RwBatchNorm1d \/ RwIsolate \/ RwCollapse \/ RwExtraFuse \/ RwFinish

-----------------------------------------------------------------------------
(* The rewrite on graphs with neg and div nodes: a chain on one input,     *)
(* each node reading the node before it.  The written divisors are 2, 0.5, *)
(* 2.5e-05 and 1e-05, as str() writes these numbers.                       *)

DivLiterals ==
    { <<"2">>, <<"0", ".", "5">>, <<"2", ".", "5", "e", "-", "0", "5">>,
      <<"1", "e", "-", "0", "5">> }

\* the div calls: x / c, x /= c, torch.div(x, c), x.div_(c)
DivFuncs ==
    { <<"truediv", "__truediv__">>, <<"truediv", "__itruediv__">>,
      <<"div", "div">>, <<"div", "div_">> }

\* the nodes the tracer may add: a div call with a written divisor, the
\* reflected form 2 / x, neg, size and a Conv2d module, on the last tensor
DivNodeChoices(nodes) ==
    LET p == Len(nodes)
    IN  IF p = 0 THEN {RwNode("input", "input", <<>>, <<>>)}
        ELSE {RwNode(kf[1], kf[2], << <<"t", p>>, <<"s", lit>> >>, <<p>>) :
                kf \in DivFuncs, lit \in DivLiterals}
             \cup {RwNode("truediv", "__rtruediv__", << <<"t", p>>, <<"s", <<"2">> >> >>, <<p>>),
                   RwNode("neg", "neg", << <<"t", p>> >>, <<p>>),
                   RwNode("size", "size", << <<"t", p>> >>, <<p>>),
                   RwNode("Conv2d", "forward", << <<"t", p>> >>, <<p>>)}

\* trace(): the tracer adds the next node of the forward pass
DivTrace ==
    /\ rpc = "trace"
    /\ Len(rnodes) < MaxDivNodes
    /\ \E c \in DivNodeChoices(rnodes) :
        /\ rnodes' = Append(rnodes, c)
        /\ rorder' = Append(rorder, Len(rnodes) + 1)
    /\ UNCHANGED <<rquantized, rpc>>
    /\ UNCHANGED varsNotRw

NextDiv ==
    \/ DivTrace \/ RwTraceOutput \/ RwQuantStubs \/ RwDeQuantStubs
    \/ RwNeg \/ RwDiv \/ RwSub \/ RwStack
    \/ RwPromote \/ RwAddRelu \/ RwBatchNorm1d \/ RwIsolate \/ RwCollapse \/ RwExtraFuse \/ RwFinish

-----------------------------------------------------------------------------
(* The rewrite on graphs with ops that have no quantized implementation:   *)
(* softmax on one tensor and x / y on two tensors, which may be the same   *)
(* tensor, next to Conv2d modules and size calls, each on earlier tensors. *)

IsoNodeChoices(nodes) ==
    LET earlier == 1..Len(nodes)
    IN  IF nodes = <<>> THEN {RwNode("input", "input", <<>>, <<>>)}
        ELSE {RwNode(kf[1], kf[2], << <<"t", p>> >>, <<p>>) :
                kf \in {<<"softmax", "softmax">>, <<"size", "size">>,
                        <<"Conv2d", "forward">>},
                p \in earlier}
             \cup {RwNode("truediv", "__truediv__", << <<"t", pq[1]>>, <<"t", pq[2]>> >>, pq) :
                     pq \in earlier \X earlier}

\* trace(): the tracer adds the next node of the forward pass
IsoTrace ==
    /\ rpc = "trace"
    /\ Len(rnodes) < MaxIsoNodes
    /\ \E c \in IsoNodeChoices(rnodes) :
        /\ rnodes' = Append(rnodes, c)
        /\ rorder' = Append(rorder, Len(rnodes) + 1)
    /\ UNCHANGED <<rquantized, rpc>>
    /\ UNCHANGED varsNotRw

NextIso ==
    \/ IsoTrace \/ RwTraceOutput \/ RwQuantStubs \/ RwDeQuantStubs
    \/ RwNeg \/ RwDiv \/ RwSub \/ RwStack
    \/ RwPromote \/ RwAddRelu \/ RwBatchNorm1d \/ RwIsolate \/ RwCollapse \/ RwExtraFuse \/ RwFinish

-----------------------------------------------------------------------------

(* The rewrite on graphs with add and mul nodes in the plain and in the    *)
(* reflected form: x + c and c + x with a written operand c on the last    *)
(* tensor, x + y and the reflected call on the last two tensors.  The      *)
(* written operands are 2, 0.5 and 1e-05, and other=2 for a reflected call *)
(* made with a keyword.                                                    *)

AddLiterals == { <<"2">>, <<"0", ".", "5">>, <<"1", "e", "-", "0", "5">> }

KeywordLiteral == <<"o", "t", "h", "e", "r", "=", "2">>

AddFuncs ==
    { <<"add", "__add__">>, <<"add", "__radd__">>,
      <<"mul", "__mul__">>, <<"mul", "__rmul__">> }

Reflected == {"__radd__", "__rmul__"}

RaddNodeChoices(nodes) ==
    LET p == Len(nodes)
    IN  IF p = 0 THEN {RwNode("input", "input", <<>>, <<>>)}
        ELSE (IF p = 1 THEN {RwNode("input", "input", <<>>, <<>>)} ELSE {})
             \cup {RwNode(kf[1], kf[2], << <<"t", p>>, <<"s", lit>> >>, <<p>>) :
                     kf \in AddFuncs, lit \in AddLiterals}
             \cup {RwNode(kf[1], kf[2], << <<"t", p>>, <<"s", KeywordLiteral>> >>, <<p>>) :
                     kf \in {x \in AddFuncs : x[2] \in Reflected}}
             \cup (IF p = 1 THEN {}
                   ELSE {RwNode(kf[1], kf[2], << <<"t", pq[1]>>, <<"t", pq[2]>> >>, pq) :
                           kf \in AddFuncs, pq \in {<<p - 1, p>>, <<p, p - 1>>}})

\* trace(): the tracer adds the next node of the forward pass
RaddTrace ==
    /\ rpc = "trace"
    /\ Len(rnodes) < MaxRaddNodes
    /\ \E c \in RaddNodeChoices(rnodes) :
        /\ rnodes' = Append(rnodes, c)
        /\ rorder' = Append(rorder, Len(rnodes) + 1)
    /\ UNCHANGED <<rquantized, rpc>>
    /\ UNCHANGED varsNotRw

NextRadd ==
    \/ RaddTrace \/ RwTraceOutput \/ RwQuantStubs \/ RwDeQuantStubs
    \/ RwNeg \/ RwDiv \/ RwSub \/ RwStack
    \/ RwPromote \/ RwAddRelu \/ RwBatchNorm1d \/ RwIsolate \/ RwCollapse \/ RwExtraFuse \/ RwFinish

-----------------------------------------------------------------------------

(* The rewrite on graphs with in-place adds and ReLU modules: x + x and    *)
(* x += x on an earlier tensor, x + y and x += y on the last two tensors,  *)
(* x + 2 on the last tensor, and ReLU modules, in-place or not, on an      *)
(* earlier tensor.                                                         *)

AddReluNodeChoices(nodes) ==
    LET k == Len(nodes)
        earlier == 1..k
    IN  IF k = 0 THEN {RwNode("input", "input", <<>>, <<>>)}
        ELSE {RwNode("add", f, << <<"t", pq[1]>>, <<"t", pq[2]>> >>, pq) :
                f \in {"__add__", "__iadd__"},
                pq \in {<<p, p>> : p \in earlier}
                       \cup (IF k = 1 THEN {} ELSE {<<k - 1, k>>})}
             \cup {RwNode("add", "__add__", << <<"t", k>>, <<"s", <<"2">> >> >>, <<k>>)}
             \cup {[RwNode("ReLU", "forward", << <<"t", p>> >>, <<p>>) EXCEPT !.inplace = b] :
                     p \in earlier, b \in BOOLEAN}

\* trace(): the tracer adds the next node of the forward pass
AddReluTrace ==
    /\ rpc = "trace"
    /\ Len(rnodes) < MaxAddNodes
    /\ \E c \in AddReluNodeChoices(rnodes) :
        /\ rnodes' = Append(rnodes, c)
        /\ rorder' = Append(rorder, Len(rnodes) + 1)
    /\ UNCHANGED <<rquantized, rpc>>
    /\ UNCHANGED varsNotRw

NextAddRelu ==
    \/ AddReluTrace \/ RwTraceOutput \/ RwQuantStubs \/ RwDeQuantStubs
    \/ RwNeg \/ RwDiv \/ RwSub \/ RwStack
    \/ RwPromote \/ RwAddRelu \/ RwBatchNorm1d \/ RwIsolate \/ RwCollapse \/ RwExtraFuse \/ RwFinish

-----------------------------------------------------------------------------

(* The graphs of the boundary insertion: inputs, constants, functions that *)
(* create a tensor, and a forward pass that returns one tensor, several    *)
(* tensors, or a collection of tensors held by one output node.            *)

\* the nodes the tracer may add: an input, a constant, a creation function,
\* a module on one earlier tensor, an add of two earlier tensors
BndNodeChoices(nodes) ==
    LET j == Len(nodes) + 1
        earlier == 1..Len(nodes)
    IN  IF j = 1 THEN {RwNode("input", "input", <<>>, <<>>)}
        ELSE {RwNode("input", "input", <<>>, <<>>),
              RwNode("constant", "constant", <<>>, <<>>),
              RwNode("zeros", "zeros", <<>>, <<>>)}
             \cup {RwNode(k, "forward", << <<"t", p>> >>, <<p>>) :
                     k \in {"Conv2d", "ReLU6"}, p \in earlier}
             \cup {RwNode("add", "__add__", << <<"t", pq[1]>>, <<"t", pq[2]>> >>, pq) :
                     pq \in {x \in earlier \X earlier : x[1] < x[2]}}

\* the output nodes of a forward pass: one node for the tensor returned,
\* one node with rev_index for a collection, or one node for each of two
\* tensors
BndOutputChoices(nodes) ==
    LET earlier == 1..Len(nodes)
        out(prev) == RwNode("output", "output",
                            [i \in 1..Len(prev) |-> <<"t", prev[i]>>], prev)
    IN  {<<out(<<p>>)>> : p \in earlier}
        \cup {<<[out(<<p>>) EXCEPT !.rev_index = TRUE]>> : p \in earlier}
        \cup {<<[out(pq) EXCEPT !.rev_index = TRUE]>> : pq \in earlier \X earlier}
        \cup {<<out(<<pq[1]>>), out(<<pq[2]>>)>> : pq \in earlier \X earlier}

BndTrace ==
    /\ rpc = "trace"
    /\ Len(rnodes) < MaxBndNodes
    /\ \E c \in BndNodeChoices(rnodes) :
        /\ rnodes' = Append(rnodes, c)
        /\ rorder' = Append(rorder, Len(rnodes) + 1)
    /\ UNCHANGED <<rquantized, rpc>>
    /\ UNCHANGED varsNotRw

\* trace(): the forward pass returns
BndTraceOutput ==
    /\ rpc = "trace"
    /\ rnodes # <<>>
    /\ \E outs \in BndOutputChoices(rnodes) :
        /\ rnodes' = rnodes \o outs
        /\ rorder' = rorder \o [i \in 1..Len(outs) |-> Len(rnodes) + i]
    /\ rpc' = "rewrite"
    /\ UNCHANGED rquantized
    /\ UNCHANGED varsNotRw

NextBnd ==
    \/ BndTrace \/ BndTraceOutput \/ RwQuantStubs \/ RwDeQuantStubs
    \/ RwNeg \/ RwDiv \/ RwSub \/ RwStack
    \/ RwPromote \/ RwAddRelu \/ RwBatchNorm1d \/ RwIsolate \/ RwCollapse \/ RwExtraFuse \/ RwFinish

-----------------------------------------------------------------------------

(* The graphs with batch normalisation on sequences: an input of two or    *)
(* three dimensions, then Conv1d, Linear and BatchNorm1d modules and       *)
(* functional batch_norm, each on the last tensor.  state names the        *)
(* state_dict of a module.                                                 *)

BnNodeChoices(nodes) ==
    LET k == Len(nodes)
    IN  IF k = 0
        THEN {[RwNode("input", "input", <<>>, <<>>) EXCEPT !.ndim = d] : d \in {2, 3}}
        ELSE LET d == nodes[k].ndim
             IN  {[RwNode(m, "forward", << <<"t", k>> >>, <<k>>)
                      EXCEPT !.ndim = d, !.state = s] :
                     m \in {"Linear", "BatchNorm1d"} \cup (IF d = 3 THEN {"Conv1d"} ELSE {}),
                     s \in 1..2}
                 \cup {[RwNode("batch_norm", "batch_norm", << <<"t", k>> >>, <<k>>)
                          EXCEPT !.ndim = d]}

\* trace(): the tracer adds the next node of the forward pass
BnTrace ==
    /\ rpc = "trace"
    /\ Len(rnodes) < MaxBnNodes
    /\ \E c \in BnNodeChoices(rnodes) :
        /\ rnodes' = Append(rnodes, c)
        /\ rorder' = Append(rorder, Len(rnodes) + 1)
    /\ UNCHANGED <<rquantized, rpc>>
    /\ UNCHANGED varsNotRw

NextBn ==
    \/ BnTrace \/ RwTraceOutput \/ RwQuantStubs \/ RwDeQuantStubs
    \/ RwNeg \/ RwDiv \/ RwSub \/ RwStack
    \/ RwPromote \/ RwAddRelu \/ RwBatchNorm1d \/ RwIsolate \/ RwCollapse \/ RwExtraFuse \/ RwFinish

-----------------------------------------------------------------------------

(* The graphs with stack nodes: inputs, split nodes with two output        *)
(* tensors, and stack nodes of two earlier tensors, the dim absent,        *)
(* written as 1 or as dim=1, or followed by another argument.              *)

\* the tensors the nodes produce
TensorsOf(nodes) ==
    UNION {IF nodes[n].kind = "split" THEN {<<"t", n, 1>>, <<"t", n, 2>>}
           ELSE {<<"t", n>>} : n \in 1..Len(nodes)}

StackArgTexts == {<<"1">>, <<"d", "i", "m", "=", "1">>, <<"1", ",", "1">>}

StackNodeChoices(nodes) ==
    LET earlier == 1..Len(nodes)
        pairs == TensorsOf(nodes) \X TensorsOf(nodes)
        stack(ts) == RwNode("stack", "stack", ts, [i \in 1..Len(ts) |-> ts[i][2]])
    IN  IF nodes = <<>> THEN {RwNode("input", "input", <<>>, <<>>)}
        ELSE {RwNode("input", "input", <<>>, <<>>)}
             \cup {RwNode("split", "split", << <<"t", p>> >>, <<p>>) :
                     p \in {q \in earlier : nodes[q].kind = "input"}}
             \cup {stack(ab) : ab \in pairs}
             \cup {[stack(ab) EXCEPT !.args = @ \o << <<"s", s>> >>] :
                     ab \in pairs, s \in StackArgTexts}

\* trace(): the tracer adds the next node of the forward pass
StackTrace ==
    /\ rpc = "trace"
    /\ Len(rnodes) < MaxStackNodes
    /\ \E c \in StackNodeChoices(rnodes) :
        /\ rnodes' = Append(rnodes, c)
        /\ rorder' = Append(rorder, Len(rnodes) + 1)
    /\ UNCHANGED <<rquantized, rpc>>
    /\ UNCHANGED varsNotRw

NextStack ==
    \/ StackTrace \/ RwTraceOutput \/ RwQuantStubs \/ RwDeQuantStubs
    \/ RwNeg \/ RwDiv \/ RwSub \/ RwStack
    \/ RwPromote \/ RwAddRelu \/ RwBatchNorm1d \/ RwIsolate \/ RwCollapse \/ RwExtraFuse \/ RwFinish

-----------------------------------------------------------------------------

(* The pipeline: QATQuantizer.quantize() with the default configuration    *)
(* (rewrite_graph True, is_input_quantized None) on a model that is a      *)
(* chain of modules: the graph is rewritten, the generated model is traced *)
(* again, and prepare_qat_prep analyses the new graph and looks for the    *)
(* modules to fuse.                                                        *)

\* the graph of input -> kinds[1] -> ... -> kinds[k] -> output
ChainGraph(kinds) ==
    LET k == Len(kinds)
    IN  [n \in 1..(k + 2) |->
            IF n = 1 THEN RwNode("input", "input", <<>>, <<>>)
            ELSE IF n = k + 2
            THEN RwNode("output", "output", << <<"t", n - 1>> >>, <<n - 1>>)
            ELSE RwNode(kinds[n - 1], "forward", << <<"t", n - 1>> >>, <<n - 1>>)]

ChainModels == UNION {[1..k -> ModuleKinds] : k \in 0..MaxChain}

\* the kind of a node as the propagator tells kinds apart
PropKind(kind) ==
    IF kind \in {"input", "output", "QuantStub", "DeQuantStub"} THEN kind ELSE "op"

\* the graph of the generated model: its nodes are numbered in forward order
Retraced(G) ==
    [i \in 1..Len(G.order) |->
        LET node == G.nodes[G.order[i]]
        IN  [node EXCEPT !.prev = [k \in 1..Len(node.prev) |->
                                      PositionIn(G.order, node.prev[k])]]]

InitPipe ==
    /\ \E kinds \in ChainModels : rnodes = ChainGraph(kinds)
    /\ rorder = [i \in 1..Len(rnodes) |-> i]
    /\ rquantized = FALSE
    /\ rpc = "rewrite"

\* graph.generate_code(...); the new model is imported and traced;
\* prepare_qat(rewritten_graph, self.is_input_quantized, self.backend)
PipeRetrace ==
    /\ rpc = "rewritten"
    /\ ppc = "idle"
    /\ LET g == Retraced(Rgraph)
       IN  /\ pgraph' = [i \in 1..Len(g) |->
                           [kind |-> PropKind(g[i].kind),
                            prev |-> {g[i].prev[k] : k \in 1..Len(g[i].prev)},
                            flag |-> FALSE]]
           /\ quantized' = [i \in 1..Len(g) |-> FALSE]
    /\ ppc' = "trace"
    /\ UNCHANGED <<qat_analysis_queue, visited, graph_quantized>>
    /\ UNCHANGED varsNotProp

\* prepare_qat_prep after the analysis: `if not graph.quantized: return`,
\* else the rules are loaded and the nodes are filtered
PipeFuse ==
    /\ ppc = "over"
    /\ fpc = "idle"
    /\ IF ~graph_quantized
       THEN /\ fpc' = "done"
            /\ UNCHANGED <<fgraph, frules, fpos, quant_list, consumed>>
       ELSE /\ LET g == Retraced(Rgraph)
               IN  /\ fgraph' = [i \in 1..Len(g) |->
                                   [type |-> g[i].kind, prev |-> g[i].prev,
                                    module |-> i, quantized |-> quantized[i]]]
                   /\ fpos' = Len(g)
            /\ frules' = "qat"
            /\ quant_list' = <<>>
            /\ consumed' = {}
            /\ fpc' = "filter"
    /\ UNCHANGED varsNotFuse

NextPipe ==
    \/ RwQuantStubs \/ RwDeQuantStubs \/ RwNeg \/ RwDiv \/ RwSub \/ RwStack
    \/ RwPromote \/ RwAddRelu \/ RwBatchNorm1d \/ RwIsolate \/ RwCollapse
    \/ RwExtraFuse \/ RwFinish
    \/ PipeRetrace \/ PropSeed \/ PropDequeue \/ PropOver
    \/ PipeFuse \/ FuseCall \/ FuseReturn

-----------------------------------------------------------------------------
(* The cat unifier: QATQuantizer.disable_requantization_for_cat_pass on a  *)
(* prepared graph.  A node is [kind, prev, quantized]; kind tells what the *)
(* walk reads of the node:                                                 *)
(*   "cat"         a cat call of a FloatFunctional                         *)
(*   "ffunc"       another call of a FloatFunctional (add, mul)            *)
(*   "mod"         a module that is or holds a fake-quantize / observer    *)
(*   "QuantStub"   a QuantStub, which holds an observer                    *)
(*   "DeQuantStub" a DeQuantStub, which holds none                         *)
(*   "plain"       a module or function without one                        *)
(*   "size"        a shape or size query                                   *)
(* The holder of a node is the (parent, attribute) pair the pass records   *)
(* for it; holds maps it to the instance the attribute refers to, 0 when   *)
(* the node has no holder.                                                 *)

CatKinds == {"cat", "ffunc", "mod", "QuantStub", "DeQuantStub", "plain", "size"}
HolderKinds == {"cat", "ffunc", "mod", "QuantStub"}
\* isinstance(n.module, nn.Module)
CatModuleKinds == {"mod", "QuantStub", "DeQuantStub"}

\* the nodes the tracer may add: the first has no operand, a later one has
\* one, a FloatFunctional call one or two; a cat node is quantized or not
CatNodeChoices(g) ==
    LET j == Len(g) + 1
        earlier == 1..Len(g)
    IN  IF j = 1
        THEN {[kind |-> k, prev |-> <<>>, quantized |-> TRUE] : k \in {"plain", "QuantStub"}}
        ELSE {[kind |-> k, prev |-> <<p>>, quantized |-> TRUE] :
                k \in CatKinds \ {"cat"}, p \in earlier}
             \cup {[kind |-> "cat", prev |-> <<p>>, quantized |-> b] :
                     p \in earlier, b \in BOOLEAN}
             \cup {[kind |-> k, prev |-> pq, quantized |-> TRUE] :
                     k \in {"cat", "ffunc"},
                     pq \in {x \in earlier \X earlier : x[1] < x[2]}}

\* node.next_nodes, in forward order
CatNextNodes(g, n) ==
    SortedSeq({m \in 1..Len(g) : \E i \in 1..Len(g[m].prev) : g[m].prev[i] = n})

\* graph.filter_forward_nodes(_find_quantized_cat_nodes)
quantized_cat_nodes(g) ==
    SortedSeq({n \in 1..Len(g) : g[n].kind = "cat" /\ g[n].quantized})

\* one iteration of `while not q.empty()` for the entry (n, mode, fq_count):
\* the holders recorded, the visited sets and the entries put in the queue
Visit(g, n, mode0, fq_count0, ps, center, other) ==
    LET kind == g[n].kind
        is_module == kind \in CatModuleKinds
        is_prev_float_functional == ~is_module /\ kind \in {"cat", "ffunc"}
        mode1 == IF ~is_module /\ kind = "cat" THEN "both" ELSE mode0
        fq_count == IF ~is_module /\ kind = "cat" THEN 0 ELSE fq_count0
        has_holder == IF is_module THEN kind \in {"mod", "QuantStub"}
                      ELSE is_prev_float_functional
        counted == IF has_holder THEN fq_count + 1 ELSE fq_count
        new_fq_count == IF kind \in {"QuantStub", "DeQuantStub"} THEN 2 ELSE counted
        fq_up == IF mode1 \in {"both", "down"} THEN fq_count ELSE new_fq_count
        fq_down == IF mode1 \in {"both", "down"} THEN new_fq_count ELSE fq_count
        mode == IF mode1 = "up" /\ Len(CatNextNodes(g, n)) > 1 THEN "both" ELSE mode1
        ups == IF mode \in {"both", "up"}
               THEN [i \in 1..Len(g[n].prev) |-> <<g[n].prev[i], "up", fq_up>>]
               ELSE <<>>
        nexts == CatNextNodes(g, n)
        downs == IF mode \in {"both", "down"}
                 THEN [i \in 1..Len(nexts) |-> <<nexts[i], "down", fq_down>>]
                 ELSE <<>>
    IN  IF kind = "size" \/ n \in center \/ n \in other
        THEN [parents |-> ps, center |-> center, other |-> other, put |-> <<>>]
        ELSE [parents |-> IF has_holder /\ fq_count = 0 THEN Append(ps, n) ELSE ps,
              center |-> IF kind = "cat" THEN center \cup {n} ELSE center,
              other |-> IF kind = "cat" THEN other ELSE other \cup {n},
              put |-> IF new_fq_count < 2 THEN ups \o downs ELSE <<>>]

\* every holder refers to a copy of the first holder's instance
UnifiedByCopy(h, ps) ==
    [n \in 1..Len(h) |->
        IF \E i \in 2..Len(ps) : ps[i] = n THEN Len(h) + n ELSE h[n]]

\* unified = getattr(parents[0], props[0]); setattr(parent, prop, unified)
\* for the other holders
Unified(h, ps) ==
    [n \in 1..Len(h) |->
        IF \E i \in 2..Len(ps) : ps[i] = n THEN h[ps[1]] ELSE h[n]]

IdleCat ==
    /\ cgraph = <<>>
    /\ holds = <<>>
    /\ cat_idx = 0
    /\ cat_q = <<>>
    /\ visited_center = {}
    /\ visited_other = {}
    /\ parents = <<>>
    /\ catpc = "idle"

InitCat ==
    /\ cgraph = <<>>
    /\ holds = <<>>
    /\ cat_idx = 0
    /\ cat_q = <<>>
    /\ visited_center = {}
    /\ visited_other = {}
    /\ parents = <<>>
    /\ catpc = "trace"

\* the tracer adds a node; a holder refers to an instance of its own
CatTrace ==
    /\ catpc = "trace"
    /\ Len(cgraph) < MaxCatNodes
    /\ \E c \in CatNodeChoices(cgraph) :
        /\ cgraph' = Append(cgraph, c)
        /\ holds' = Append(holds, IF c.kind \in HolderKinds THEN Len(cgraph) + 1 ELSE 0)
    /\ UNCHANGED <<cat_idx, cat_q, visited_center, visited_other, parents, catpc>>
    /\ UNCHANGED varsNotCat

\* q = queue.Queue(); visited_center = set()
CatPassBegin ==
    /\ catpc = "trace"
    /\ cgraph # <<>>
    /\ catpc' = "for"
    /\ cat_idx' = 1
    /\ UNCHANGED <<cgraph, holds, cat_q, visited_center, visited_other, parents>>
    /\ UNCHANGED varsNotCat

\* for n in quantized_cat_nodes: q.put((n, 'both', 0)); parents = [] ...
CatNext ==
    /\ catpc = "for"
    /\ IF cat_idx <= Len(quantized_cat_nodes(cgraph))
       THEN /\ cat_q' = << <<quantized_cat_nodes(cgraph)[cat_idx], "both", 0>> >>
            /\ parents' = <<>>
            /\ visited_other' = {}
            /\ catpc' = "while"
       ELSE /\ catpc' = "done"
            /\ UNCHANGED <<cat_q, parents, visited_other>>
    /\ UNCHANGED <<cgraph, holds, cat_idx, visited_center>>
    /\ UNCHANGED varsNotCat

\* one iteration of `while not q.empty()`
CatVisit ==
    /\ catpc = "while"
    /\ cat_q # <<>>
    /\ LET r == Visit(cgraph, Head(cat_q)[1], Head(cat_q)[2], Head(cat_q)[3],
                      parents, visited_center, visited_other)
       IN  /\ parents' = r.parents
           /\ visited_center' = r.center
           /\ visited_other' = r.other
           /\ cat_q' = Tail(cat_q) \o r.put
    /\ UNCHANGED <<cgraph, holds, cat_idx, catpc>>
    /\ UNCHANGED varsNotCat

\* the queue is empty: `if len(names) > 1:` the holders are unified
CatUnify ==
    /\ catpc = "while"
    /\ cat_q = <<>>
    /\ holds' = IF Len(parents) > 1 THEN Unified(holds, parents) ELSE holds
    /\ cat_idx' = cat_idx + 1
    /\ catpc' = "for"
    /\ UNCHANGED <<cgraph, cat_q, visited_center, visited_other, parents>>
    /\ UNCHANGED varsNotCat

NextCat == CatTrace \/ CatPassBegin \/ CatNext \/ CatVisit \/ CatUnify

-----------------------------------------------------------------------------
(* Preparation: prepare_qat of QATQuantizer and of PostQuantizer, run on   *)
(* the graphs of the propagator once the analysis is over.  prep_done is   *)
(* the list of the steps that have run, with the exception that ended the  *)
(* call as its last element when one was raised; stub_stats maps a         *)
(* QuantStub to the <<scale, zero_point>> set_module_quantization gave it. *)
(* None is written <<>>; a list of statistics has an entry at least.       *)

None == <<>>

\* the (mean, std) pairs given for an input
StatPairs == {<<1, 2>>}

\* quantized_input_stats for a graph of n inputs: None, a list of n entries
\* each None or a pair, or a list of another length
InputStatsChoices(n) ==
    {None} \cup [1..n -> {None} \cup StatPairs] \cup [1..(n + 1) -> StatPairs]

PrepClasses == {"QATQuantizer", "PostQuantizer"}

\* the attributes of the quantizer that prepare_qat reads
PrepSelfChoices(n) ==
    [cls : PrepClasses,
     quantized_input_stats : InputStatsChoices(n),
     disable_requantization_for_cat : BOOLEAN,
     set_quantizable_op_stats : BOOLEAN]

\* graph.input_nodes
InputNodes(g) == SortedSeq({n \in Nodes(g) : g[n].kind = "input"})

\* set_module_quantization(module, mean, std) on a module that has an
\* activation_post_process: scale = 1.0 / std, zero_point = mean
ModuleQuantization(mean, std) == <<Rat(1, std), mean>>

\* the loop over node.next_nodes for one input, from consumer number j on
RECURSIVE SeedStubs(_, _, _, _, _, _)
SeedStubs(g, has_acp, qstats, next_nodes, j, stats) ==
    IF j > Len(next_nodes) THEN [stats |-> stats, raised |-> ""]
    ELSE LET next_node == next_nodes[j]
         IN  IF g[next_node].kind = "QuantStub"
             THEN IF qstats = None
                  THEN [stats |-> stats, raised |-> "TypeError"]
                  ELSE SeedStubs(g, has_acp, qstats, next_nodes, j + 1,
                                 IF has_acp[next_node]
                                 THEN [stats EXCEPT ![next_node] =
                                          ModuleQuantization(qstats[1], qstats[2])]
                                 ELSE stats)
             ELSE SeedStubs(g, has_acp, qstats, next_nodes, j + 1, stats)

\* for qstats, node in zip(self.quantized_input_stats, graph.input_nodes)
RECURSIVE SeedInputs(_, _, _, _, _)
SeedInputs(g, has_acp, qis, i, stats) ==
    IF i > Len(InputNodes(g)) THEN [stats |-> stats, raised |-> ""]
    ELSE LET R == SeedStubs(g, has_acp, qis[i], NextNodes(g, InputNodes(g)[i]), 1, stats)
         IN  IF R.raised # "" THEN R
             ELSE SeedInputs(g, has_acp, qis, i + 1, R.stats)

\* prepare_quantized_inputs_pass
PrepareQuantizedInputs(g, has_acp, qis, stats) ==
    IF qis = None THEN [stats |-> stats, raised |-> ""]
    ELSE IF Len(qis) # Len(InputNodes(g))
    THEN [stats |-> stats, raised |-> "AssertionError"]
    ELSE SeedInputs(g, has_acp, qis, 1, stats)

\* the modules that have an activation_post_process: the nodes left with a
\* qconfig when the observers were put in
HasAcp(g, qconfig_set, observers_in, node_quantized) ==
    [n \in Nodes(g) |-> qconfig_set /\ observers_in /\ node_quantized[n]]

IdlePrep ==
    /\ prep_self = <<>>
    /\ prep_done = <<>>
    /\ stub_stats = <<>>
    /\ prpc = "idle"

InitPrep ==
    /\ prep_self = <<>>
    /\ prep_done = <<>>
    /\ stub_stats = <<>>
    /\ prpc = "prep"

\* trace(): the tracer adds the next node of the forward pass, unquantized
PrepTrace ==
    /\ ppc = "trace"
    /\ Len(pgraph) < MaxPrepNodes
    /\ \E c \in NodeChoices(pgraph) :
        /\ pgraph' = Append(pgraph, c)
        /\ quantized' = Append(quantized, FALSE)
    /\ UNCHANGED <<qat_analysis_queue, visited, graph_quantized, ppc>>
    /\ UNCHANGED <<varsTrie, varsCfg, varsFuse, varsRw, varsCat, varsPrep, varsEa>>

PrepUnchanged == UNCHANGED <<varsTrie, varsCfg, varsProp, varsFuse, varsRw, varsCat, varsEa>>

\* prepare_qat_prep after the analysis: `if not graph.quantized: return`,
\* else the modules are fused and prepare_qconfig is called
PrepPrep ==
    /\ prpc = "prep"
    /\ ppc = "over"
    /\ \E s \in PrepSelfChoices(Len(InputNodes(pgraph))) : prep_self' = s
    /\ prep_done' = IF graph_quantized THEN <<"fuse", "qconfig">> ELSE <<>>
    /\ stub_stats' = [n \in Nodes(pgraph) |-> None]
    /\ prpc' = "check"
    /\ PrepUnchanged

\* QATQuantizer.prepare_qat: `if not graph.quantized: return graph.module`;
\* PostQuantizer.prepare_qat goes on
PrepCheck ==
    /\ prpc = "check"
    /\ prpc' = IF prep_self.cls = "QATQuantizer" /\ ~graph_quantized
               THEN "returned" ELSE "convert"
    /\ UNCHANGED <<prep_self, prep_done, stub_stats>>
    /\ PrepUnchanged

\* propagate_qconfig_, then convert and prepare (QAT) or add_observer_
\* (post-training)
PrepConvert ==
    /\ prpc = "convert"
    /\ prep_done' = prep_done \o
                      (IF prep_self.cls = "QATQuantizer"
                       THEN <<"propagate_qconfig", "convert", "observers">>
                       ELSE <<"propagate_qconfig", "observers">>)
    /\ prpc' = "cat"
    /\ UNCHANGED <<prep_self, stub_stats>>
    /\ PrepUnchanged

\* if self.disable_requantization_for_cat
PrepCatPass ==
    /\ prpc = "cat"
    /\ prep_done' = IF prep_self.disable_requantization_for_cat
                    THEN Append(prep_done, "cat_pass") ELSE prep_done
    /\ prpc' = "inputs"
    /\ UNCHANGED <<prep_self, stub_stats>>
    /\ PrepUnchanged

\* if self.quantized_input_stats is not None
PrepInputsPass ==
    /\ prpc = "inputs"
    /\ IF prep_self.quantized_input_stats = None
       THEN /\ prpc' = "ops"
            /\ UNCHANGED <<prep_done, stub_stats>>
       ELSE LET has_acp == HasAcp(pgraph, "qconfig" \in Range(prep_done),
                                  "observers" \in Range(prep_done), quantized)
                R == PrepareQuantizedInputs(pgraph, has_acp,
                                            prep_self.quantized_input_stats, stub_stats)
            IN  /\ stub_stats' = R.stats
                /\ prep_done' = IF R.raised # ""
                                THEN prep_done \o <<"inputs_pass", R.raised>>
                                ELSE Append(prep_done, "inputs_pass")
                /\ prpc' = IF R.raised # "" THEN "raised" ELSE "ops"
    /\ UNCHANGED prep_self
    /\ PrepUnchanged

\* set_quantizable_op_stats fills quantized_op_stats, which is None
\* otherwise; the pass runs when it is not None
PrepOpsPass ==
    /\ prpc = "ops"
    /\ prep_done' = IF prep_self.set_quantizable_op_stats
                    THEN Append(prep_done, "ops_pass") ELSE prep_done
    /\ prpc' = "returned"
    /\ UNCHANGED <<prep_self, stub_stats>>
    /\ PrepUnchanged

NextPrep ==
    \/ PrepTrace \/ PropSeed \/ PropDequeue \/ PropOver
    \/ PrepPrep \/ PrepCheck \/ PrepConvert \/ PrepCatPass \/ PrepInputsPass \/ PrepOpsPass

-----------------------------------------------------------------------------

(* error_analysis.  A FakeQuantize module is written as its two flags and  *)
(* the number of times its observer has taken in a tensor; the modules are *)
(* numbered in named_modules order.                                        *)

FqModule(fq, ob) == [fake_quant_enabled |-> fq, observer_enabled |-> ob, observed |-> 0]

FqModels ==
    UNION {[1..n -> {FqModule(fq, ob) : fq \in 0..1, ob \in 0..1}] : n \in 0..MaxFq}

\* the orders in which a forward pass can run some of n modules, each once
CallOrders(n) ==
    {c \in UNION {[1..k -> 1..n] : k \in 0..n} : Distinct(c) = c}

DummyInputs ==
    [type : {"Tensor", "list", "other"}, forward_raises : BOOLEAN]

\* float_results[name] = input
SetItem(results, name) ==
    IF name \in Range(results) THEN results ELSE Append(results, name)

\* the forward of FakeQuantize module m with its forward hooks: the observer
\* takes the tensor in when observer_enabled is set, then the hook of the
\* call stores the input
RunFakeQuantize(S, m) ==
    [mods |-> [S.mods EXCEPT ![m].observed =
                 IF S.mods[m].observer_enabled = 1 THEN @ + 1 ELSE @],
     results |-> IF m \in S.hooks THEN SetItem(S.results, m) ELSE S.results,
     hooks |-> S.hooks]

\* model(*actual_input): the modules of the forward pass, in order
RECURSIVE RunModel(_, _, _)
RunModel(S, order, i) ==
    IF i > Len(order) THEN S ELSE RunModel(RunFakeQuantize(S, order[i]), order, i + 1)

\* model.apply(torch.quantization.disable_fake_quant)
DisableFakeQuant(mods) == [m \in DOMAIN mods |-> [mods[m] EXCEPT !.fake_quant_enabled = 0]]

\* the observers are left as they are
DisableObserverNone(mods) == mods

\* model.apply(torch.quantization.disable_observer)
DisableObserver(mods) == [m \in DOMAIN mods |-> [mods[m] EXCEPT !.observer_enabled = 0]]

IdleEa ==
    /\ fq_modules = <<>>
    /\ dummy_input = <<>>
    /\ called = <<>>
    /\ hooks = {}
    /\ fake_quant_enabled_dict = <<>>
    /\ observer_enabled_dict = <<>>
    /\ float_results = <<>>
    /\ before = <<>>
    /\ eapc = "idle"

\* a model with its FakeQuantize modules, and the arguments of the call
InitEa ==
    /\ fq_modules \in FqModels
    /\ dummy_input \in DummyInputs
    /\ called \in CallOrders(Len(fq_modules))
    /\ hooks = {}
    /\ fake_quant_enabled_dict = <<>>
    /\ observer_enabled_dict = <<>>
    /\ float_results = <<>>
    /\ before = fq_modules
    /\ eapc = "call"

EaUnchanged == UNCHANGED <<varsTrie, varsCfg, varsProp, varsFuse, varsRw, varsCat, varsPrep>>

\* the loop over named_modules, and the return when it finds nothing
EaCollect ==
    /\ eapc = "call"
    /\ fake_quant_enabled_dict' = [m \in DOMAIN fq_modules |-> fq_modules[m].fake_quant_enabled]
    /\ observer_enabled_dict' = [m \in DOMAIN fq_modules |-> fq_modules[m].observer_enabled]
    /\ hooks' = DOMAIN fq_modules
    /\ eapc' = IF Len(fq_modules) = 0 THEN "returned" ELSE "disable"
    /\ UNCHANGED <<fq_modules, dummy_input, called, float_results, before>>
    /\ EaUnchanged

\* the two model.apply calls and the test of the type of dummy_input
EaDisable ==
    /\ eapc = "disable"
    /\ fq_modules' = DisableObserver(DisableFakeQuant(fq_modules))
    /\ eapc' = IF dummy_input.type \in {"Tensor", "list"} THEN "forward" ELSE "raised"
    /\ UNCHANGED <<dummy_input, called, hooks, fake_quant_enabled_dict,
                   observer_enabled_dict, float_results, before>>
    /\ EaUnchanged

\* model.eval() and the forward pass that the hooks capture
EaForward ==
    /\ eapc = "forward"
    /\ LET S == RunModel([mods |-> fq_modules, results |-> float_results, hooks |-> hooks],
                         called, 1)
       IN  /\ fq_modules' = S.mods
           /\ float_results' = S.results
    /\ eapc' = IF dummy_input.forward_raises THEN "raised" ELSE "unhook"
    /\ UNCHANGED <<dummy_input, called, hooks, fake_quant_enabled_dict,
                   observer_enabled_dict, before>>
    /\ EaUnchanged

\* for h in hooks: h.remove()
EaRemoveHooks ==
    /\ eapc = "unhook"
    /\ hooks' = {}
    /\ eapc' = "restore_fq"
    /\ UNCHANGED <<fq_modules, dummy_input, called, fake_quant_enabled_dict,
                   observer_enabled_dict, float_results, before>>
    /\ EaUnchanged

\* for m, v in fake_quant_enabled_dict.items(): m.fake_quant_enabled = v
EaRestoreFakeQuant ==
    /\ eapc = "restore_fq"
    /\ fq_modules' = [m \in DOMAIN fq_modules |->
                        [fq_modules[m] EXCEPT !.fake_quant_enabled = fake_quant_enabled_dict[m]]]
    /\ eapc' = "replay"
    /\ UNCHANGED <<dummy_input, called, hooks, fake_quant_enabled_dict,
                   observer_enabled_dict, float_results, before>>
    /\ EaUnchanged

\* one turn of `while len(float_results) > 0`: popitem takes the entry put
\* in last, and the module runs on the captured input
EaReplay ==
    /\ eapc = "replay"
    /\ float_results # <<>>
    /\ LET n == float_results[Len(float_results)]
           S == RunFakeQuantize([mods |-> fq_modules,
                                 results |-> SubSeq(float_results, 1, Len(float_results) - 1),
                                 hooks |-> hooks], n)
       IN  /\ fq_modules' = S.mods
           /\ float_results' = S.results
    /\ UNCHANGED <<dummy_input, called, hooks, fake_quant_enabled_dict,
                   observer_enabled_dict, before, eapc>>
    /\ EaUnchanged

\* the end of the loop and the report
EaReport ==
    /\ eapc = "replay"
    /\ float_results = <<>>
    /\ eapc' = "restore_obs"
    /\ UNCHANGED <<fq_modules, dummy_input, called, hooks, fake_quant_enabled_dict,
                   observer_enabled_dict, float_results, before>>
    /\ EaUnchanged

\* for m, v in observer_enabled_dict.items(): m.observer_enabled = v; then
\* model.train()
EaRestoreObserver ==
    /\ eapc = "restore_obs"
    /\ fq_modules' = [m \in DOMAIN fq_modules |->
                        [fq_modules[m] EXCEPT !.observer_enabled = observer_enabled_dict[m]]]
    /\ eapc' = "returned"
    /\ UNCHANGED <<dummy_input, called, hooks, fake_quant_enabled_dict,
                   observer_enabled_dict, float_results, before>>
    /\ EaUnchanged

NextEa ==
    \/ EaCollect \/ EaDisable \/ EaForward \/ EaRemoveHooks
    \/ EaRestoreFakeQuant \/ EaReplay \/ EaReport \/ EaRestoreObserver

-----------------------------------------------------------------------------

(* The rewrite followed by the analysis of prepare_qat_prep, on graphs     *)
(* with several inputs and constants, ops with no quantized implementation *)
(* and Conv2d modules, for every is_input_quantized and every dtype of the *)
(* constants.                                                              *)

UqNodeChoices(nodes) ==
    IsoNodeChoices(nodes)
    \cup {RwNode("input", "input", <<>>, <<>>), RwNode("constant", "constant", <<>>, <<>>)}

\* trace(): the tracer adds the next node of the forward pass
UqTrace ==
    /\ rpc = "trace"
    /\ Len(rnodes) < MaxUqNodes
    /\ \E c \in UqNodeChoices(rnodes) :
        /\ rnodes' = Append(rnodes, c)
        /\ rorder' = Append(rorder, Len(rnodes) + 1)
    /\ UNCHANGED <<rquantized, rpc>>
    /\ UNCHANGED varsNotRw

\* the kind of a node as the propagator tells kinds apart, constants
\* included
SeedKind(kind) == IF kind = "constant" THEN "const" ELSE PropKind(kind)

\* prepare_qat_prep(graph, is_input_quantized, backend) on the rewritten
\* graph: flag is the entry of is_input_quantized for an input and
\* `not dtype == torch.float32` for a constant
UqPrepare ==
    /\ rpc = "rewritten"
    /\ ppc = "idle"
    /\ LET g == Retraced(Rgraph)
           seeds == {i \in 1..Len(g) : g[i].kind \in {"input", "constant"}}
       IN  /\ \E flags \in [seeds -> BOOLEAN] :
                pgraph' = [i \in 1..Len(g) |->
                             [kind |-> SeedKind(g[i].kind),
                              prev |-> {g[i].prev[k] : k \in 1..Len(g[i].prev)},
                              flag |-> IF i \in seeds THEN flags[i] ELSE FALSE]]
           /\ quantized' = [i \in 1..Len(g) |-> FALSE]
    /\ ppc' = "trace"
    /\ UNCHANGED <<qat_analysis_queue, visited, graph_quantized>>
    /\ UNCHANGED varsNotProp

NextUq ==
    \/ UqTrace \/ RwTraceOutput \/ RwQuantStubs \/ RwDeQuantStubs
    \/ RwNeg \/ RwDiv \/ RwSub \/ RwStack
    \/ RwPromote \/ RwAddRelu \/ RwBatchNorm1d \/ RwIsolate \/ RwCollapse \/ RwExtraFuse \/ RwFinish
    \/ UqPrepare \/ PropSeed \/ PropDequeue \/ PropOver

-----------------------------------------------------------------------------

(* rewrite_quantize_graph called again on the graph it has rewritten.      *)

\* the caller calls rewrite_quantize_graph(graph) once more
RwAgain ==
    /\ rpc = "rewritten"
    /\ rpc' = "rewrite"
    /\ UNCHANGED <<rnodes, rorder, rquantized>>
    /\ UNCHANGED varsNotRw

NextTwice ==
    \/ RwTrace \/ RwTraceOutput \/ RwQuantStubs \/ RwDeQuantStubs
    \/ RwNeg \/ RwDiv \/ RwSub \/ RwStack
    \/ RwPromote \/ RwAddRelu \/ RwBatchNorm1d \/ RwIsolate \/ RwCollapse \/ RwExtraFuse \/ RwFinish
    \/ RwAgain

-----------------------------------------------------------------------------

(* The post-training pipeline: PostQuantizer.quantize() with rewrite_graph *)
(* on a model that is a chain of Linear, BatchNorm1d and ReLU modules on   *)
(* an input of two or three dimensions, with torch 1.8, where the rule     *)
(* (Linear, BatchNorm1d) is among the PTQ rules.                           *)

PtqModuleKinds == {"Linear", "BatchNorm1d", "ReLU"}

PtqModels == UNION {[1..k -> PtqModuleKinds] : k \in 1..MaxPtqChain}

InitPtq ==
    /\ \E kinds \in PtqModels, d \in {2, 3} :
         rnodes = [n \in 1..(Len(kinds) + 2) |-> [ChainGraph(kinds)[n] EXCEPT !.ndim = d]]
    /\ rorder = [i \in 1..Len(rnodes) |-> i]
    /\ rquantized = FALSE
    /\ rpc = "rewrite"

\* prepare_qat_prep of a PostQuantizer after the analysis: the PTQ rules
\* are loaded and the nodes are filtered
PtqFuse ==
    /\ ppc = "over"
    /\ fpc = "idle"
    /\ IF ~graph_quantized
       THEN /\ fpc' = "done"
            /\ UNCHANGED <<fgraph, frules, fpos, quant_list, consumed>>
       ELSE /\ LET g == Retraced(Rgraph)
               IN  /\ fgraph' = [i \in 1..Len(g) |->
                                   [type |-> g[i].kind, prev |-> g[i].prev,
                                    module |-> i, quantized |-> quantized[i]]]
                   /\ fpos' = Len(g)
            /\ frules' = "ptq"
            /\ quant_list' = <<>>
            /\ consumed' = {}
            /\ fpc' = "filter"
    /\ UNCHANGED varsNotFuse

NextPtq ==
    \/ RwQuantStubs \/ RwDeQuantStubs \/ RwNeg \/ RwDiv \/ RwSub \/ RwStack
    \/ RwPromote \/ RwAddRelu \/ RwBatchNorm1d \/ RwIsolate \/ RwCollapse
    \/ RwExtraFuse \/ RwFinish
    \/ PipeRetrace \/ PropSeed \/ PropDequeue \/ PropOver
    \/ PtqFuse \/ FuseCall \/ FuseReturn

-----------------------------------------------------------------------------

(* Specifications: one per component.                                      *)

TrieStart == InitTrie /\ IdleCfg /\ IdleProp /\ IdleFuse /\ IdleRw /\ IdleCat /\ IdlePrep /\ IdleEa
SpecTrie == TrieStart /\ [][NextTrie]_vars

CfgStart == InitCfg /\ IdleTrie /\ IdleProp /\ IdleFuse /\ IdleRw /\ IdleCat /\ IdlePrep /\ IdleEa
SpecCfg == CfgStart /\ [][NextCfg]_vars

PropStart == InitProp /\ IdleTrie /\ IdleCfg /\ IdleFuse /\ IdleRw /\ IdleCat /\ IdlePrep /\ IdleEa
SpecProp == PropStart /\ [][NextProp]_vars

FuseStart == InitFuse /\ IdleTrie /\ IdleCfg /\ IdleProp /\ IdleRw /\ IdleCat /\ IdlePrep /\ IdleEa
SpecFuse == FuseStart /\ [][NextFuse]_vars

RwStart == InitRw /\ IdleTrie /\ IdleCfg /\ IdleProp /\ IdleFuse /\ IdleCat /\ IdlePrep /\ IdleEa
SpecRw == RwStart /\ [][NextRw]_vars

DivStart == InitRw /\ IdleTrie /\ IdleCfg /\ IdleProp /\ IdleFuse /\ IdleCat /\ IdlePrep /\ IdleEa
SpecDiv == DivStart /\ [][NextDiv]_vars

IsoStart == InitRw /\ IdleTrie /\ IdleCfg /\ IdleProp /\ IdleFuse /\ IdleCat /\ IdlePrep /\ IdleEa
SpecIso == IsoStart /\ [][NextIso]_vars

RaddStart == InitRw /\ IdleTrie /\ IdleCfg /\ IdleProp /\ IdleFuse /\ IdleCat /\ IdlePrep /\ IdleEa
SpecRadd == RaddStart /\ [][NextRadd]_vars

AddReluStart == InitRw /\ IdleTrie /\ IdleCfg /\ IdleProp /\ IdleFuse /\ IdleCat /\ IdlePrep /\ IdleEa
SpecAddRelu == AddReluStart /\ [][NextAddRelu]_vars

BndStart == InitRw /\ IdleTrie /\ IdleCfg /\ IdleProp /\ IdleFuse /\ IdleCat /\ IdlePrep /\ IdleEa
SpecBnd == BndStart /\ [][NextBnd]_vars

BnStart == InitRw /\ IdleTrie /\ IdleCfg /\ IdleProp /\ IdleFuse /\ IdleCat /\ IdlePrep /\ IdleEa
SpecBn == BnStart /\ [][NextBn]_vars

UqStart == InitRw /\ IdleTrie /\ IdleCfg /\ IdleProp /\ IdleFuse /\ IdleCat /\ IdlePrep /\ IdleEa
SpecUq == UqStart /\ [][NextUq]_vars

TwiceStart == InitRw /\ IdleTrie /\ IdleCfg /\ IdleProp /\ IdleFuse /\ IdleCat /\ IdlePrep /\ IdleEa
SpecTwice == TwiceStart /\ [][NextTwice]_vars

PtqStart == InitPtq /\ IdleTrie /\ IdleCfg /\ IdleProp /\ IdleFuse /\ IdleCat /\ IdlePrep /\ IdleEa
SpecPtq == PtqStart /\ [][NextPtq]_vars

EaStart ==
    InitEa /\ IdleTrie /\ IdleCfg /\ IdleProp /\ IdleFuse /\ IdleRw /\ IdleCat /\ IdlePrep
SpecEa == EaStart /\ [][NextEa]_vars

PrepStart ==
    InitProp /\ InitPrep /\ IdleTrie /\ IdleCfg /\ IdleFuse /\ IdleRw /\ IdleCat /\ IdleEa
SpecPrep == PrepStart /\ [][NextPrep]_vars

StackStart == InitRw /\ IdleTrie /\ IdleCfg /\ IdleProp /\ IdleFuse /\ IdleCat /\ IdlePrep /\ IdleEa
SpecStack == StackStart /\ [][NextStack]_vars

PipeStart == InitPipe /\ IdleTrie /\ IdleCfg /\ IdleProp /\ IdleFuse /\ IdleCat /\ IdlePrep /\ IdleEa
Spec == PipeStart /\ [][NextPipe]_vars

CatStart == InitCat /\ IdleTrie /\ IdleCfg /\ IdleProp /\ IdleFuse /\ IdleRw /\ IdlePrep /\ IdleEa
SpecCat == CatStart /\ [][NextCat]_vars

-----------------------------------------------------------------------------
(* Properties.                                                             *)

\* the operator types of a rule set, and one type no rule mentions
TypesOf(rules) == UNION { {r[i] : i \in 1..Len(r)} : r \in rules } \cup {"Other"}

\* the non-empty prefixes of the reversed rules: the nodes a trie must have
RulePaths(rules) ==
    UNION { {Prefix(Reverse(r), k) : k \in 1..Len(r)} : r \in rules }

(* C4: when a loader returns, the walk of the returned trie along a        *)
(* sequence s of operator types ends on a terminal node iff reversed(s) is *)
(* a rule; the trie has exactly the nodes the reversed rules need, so any  *)
(* two compilations of one rule set are structurally equal; for {(A,B,C)}  *)
(* the walk C,B,A is terminal at depth 3 only.                             *)
C4_TrieTerminalIffRule ==
    tpc = "return" =>
        LET rules == RuleSet(which, torch_minor) IN
        /\ \A s \in SeqsUpTo(TypesOf(rules), MaxWalk) :
              TrieTerminal(processed, s) <=> Reverse(s) \in rules
        /\ DOMAIN processed = RulePaths(rules)
        /\ which = "abc" =>
              /\ ~TrieTerminal(processed, <<"C">>)
              /\ ~TrieTerminal(processed, <<"C", "B">>)
              /\ TrieTerminal(processed, <<"C", "B", "A">>)

\* a second call returns the trie of conv-bn-relu, conv-relu and bn-relu
C4_Witness ==
    /\ tpc = "return"
    /\ loads = 1
    /\ which = "qat"
    /\ TrieTerminal(processed, <<"ReLU", "BatchNorm2d", "Conv2d">>)
    /\ TrieTerminal(processed, <<"ReLU", "BatchNorm2d">>)
    /\ ~TrieTerminal(processed, <<"ReLU">>)

\* the value an option takes: the one the config gives, else the default
Effective(k) == IF config[k] = Absent THEN default_values[k] ELSE config[k]

(* C7: a DynamicQuantizer whose effective asymmetric option is True or     *)
(* whose effective per_tensor option is False fails in parse_config, with  *)
(* the model's mode untouched and nothing traced; otherwise it passes the  *)
(* checks of parse_config.                                                 *)
C7_DynamicFailsFast ==
    (cls = "DynamicQuantizer" /\ cpc # "new") =>
        IF Effective("asymmetric") = "True" \/ Effective("per_tensor") = "False"
        THEN /\ cpc = "failed"
             /\ failed_at \in {"dynamic_asymmetric", "dynamic_per_channel"}
             /\ model_mode = "untouched"
             /\ ~traced
        ELSE failed_at \notin {"dynamic_asymmetric", "dynamic_per_channel"}

\* a DynamicQuantizer built without a config fails on the default asymmetric=True
C7_Witness ==
    /\ cls = "DynamicQuantizer"
    /\ config.asymmetric = Absent
    /\ config.per_tensor = "True"
    /\ cpc = "failed"
    /\ failed_at = "dynamic_asymmetric"

(* C8: with backend fbgemm, construction fails on an assertion when        *)
(* asymmetric is False or per_tensor is True, so every constructed fbgemm  *)
(* quantizer is asymmetric and per-channel.                                *)
C8_FbgemmAsserted ==
    (Effective("backend") = "fbgemm" /\ cpc \notin {"new", "parsed"}) =>
        /\ (Effective("asymmetric") = "False" \/ Effective("per_tensor") = "True") =>
              (cpc = "failed" /\ failed_at # "")
        /\ cpc \in {"constructed", "mode_set", "quantized"} =>
              (self.asymmetric = "True" /\ self.per_tensor = "False")

\* a QAT quantizer for fbgemm with the default per_tensor=True is rejected
C8_Witness ==
    /\ cls = "QATQuantizer"
    /\ config.backend = "fbgemm"
    /\ config.per_tensor = Absent
    /\ cpc = "failed"
    /\ failed_at = "fbgemm_per_tensor"

\* a PostQuantizer for fbgemm, asymmetric and per-channel, is constructed
C8_WitnessConstructed ==
    /\ cls = "PostQuantizer"
    /\ config.backend = "fbgemm"
    /\ cpc = "constructed"

\* a node that is neither a marker nor an output node
PlainNode(g, n) == g[n].kind \notin {"QuantStub", "DeQuantStub", "output"}

\* n lies downstream of a marker of the kind given, with no marker in between
RECURSIVE DownstreamOf(_, _, _)
DownstreamOf(g, marker, n) ==
    \E p \in g[n].prev :
        \/ g[p].kind = marker
        \/ PlainNode(g, p) /\ DownstreamOf(g, marker, p)

\* the flags that reach n over the paths of the graph
RECURSIVE Arriving(_, _)
Arriving(g, n) ==
    (IF g[n].kind \in SourceKinds THEN {g[n].flag} ELSE {})
    \cup UNION { IF g[p].kind = "QuantStub" THEN {TRUE}
                 ELSE IF g[p].kind = "DeQuantStub" THEN {FALSE}
                 ELSE Arriving(g, p) : p \in g[n].prev }

(* C2 as stated: after the propagation every node downstream of a          *)
(* DeQuantStub and before the next QuantStub has quantized False, and      *)
(* every node between a QuantStub and the next DeQuantStub or terminal has *)
(* quantized True, nodes whose predecessors hand on different flags        *)
(* included.                                                               *)
C2_AsStated ==
    ppc = "over" =>
        \A n \in Nodes(pgraph) :
            PlainNode(pgraph, n) =>
                /\ DownstreamOf(pgraph, "DeQuantStub", n) => ~quantized[n]
                /\ DownstreamOf(pgraph, "QuantStub", n) => quantized[n]

(* C2 amended: the same, for the nodes at which all arriving flags agree.  *)
C2_FlagsBetweenMarkers ==
    ppc = "over" =>
        \A n \in Nodes(pgraph) :
            PlainNode(pgraph, n) =>
                /\ (DownstreamOf(pgraph, "DeQuantStub", n) /\ Arriving(pgraph, n) = {FALSE})
                      => ~quantized[n]
                /\ (DownstreamOf(pgraph, "QuantStub", n) /\ Arriving(pgraph, n) = {TRUE})
                      => quantized[n]

\* input -> QuantStub -> op -> DeQuantStub, analysed to the end: the op
\* lies between a QuantStub and the next DeQuantStub
C2_Witness ==
    /\ ppc = "over"
    /\ \E q, a, d \in Nodes(pgraph) :
        /\ pgraph[q].kind = "QuantStub" /\ pgraph[a].kind = "op"
        /\ pgraph[d].kind = "DeQuantStub"
        /\ pgraph[a].prev = {q} /\ pgraph[d].prev = {a}
        /\ Arriving(pgraph, a) = {TRUE}
        /\ quantized[a]

\* the nodes that put entries in the queue
Seeds(g) == {n \in Nodes(g) : g[n].kind \in SourceKinds}

(* C3 as stated: on completion graph.quantized is the OR of the quantized  *)
(* flags of all nodes.                                                     *)
C3_AsStated ==
    ppc = "over" => (graph_quantized <=> \E n \in Nodes(pgraph) : quantized[n])

(* C3 amended: on completion graph.quantized is the OR of the flags of the *)
(* dequeued entries: True iff a seed flag is True or a visited QuantStub   *)
(* has a successor; when it is True some node has quantized True.          *)
C3_GraphFlagIsOrOfEntries ==
    ppc = "over" =>
        /\ graph_quantized <=>
              \/ \E n \in Seeds(pgraph) : pgraph[n].flag
              \/ \E n \in visited : /\ pgraph[n].kind = "QuantStub"
                                    /\ NextNodes(pgraph, n) # <<>>
        /\ graph_quantized => \E n \in Nodes(pgraph) : quantized[n]

\* a float input feeds a DeQuantStub: the marker is flagged, the graph is not
C3_Witness ==
    /\ ppc = "over"
    /\ ~graph_quantized
    /\ \E d \in Nodes(pgraph) : pgraph[d].kind = "DeQuantStub" /\ quantized[d]

\* the nodes a walk from the seeds along next_nodes comes to
RECURSIVE ReachableFrom(_, _)
ReachableFrom(g, S) ==
    LET T == S \cup {m \in Nodes(g) : g[m].prev \cap S # {}}
    IN  IF T = S THEN S ELSE ReachableFrom(g, T)

\* what C12 says of one dequeued entry (node, incoming); outputs_flagged
\* tells whether the first entry sets the flag of an output node too
C12_Dequeued(outputs_flagged) ==
    LET node == Head(qat_analysis_queue)[1]
        incoming == Head(qat_analysis_queue)[2]
        kind == pgraph[node].kind
        succ == NextNodes(pgraph, node)
        onward == IF kind = "QuantStub" THEN TRUE
                  ELSE IF kind = "DeQuantStub" THEN FALSE
                  ELSE incoming
    IN  IF node \in visited
        THEN /\ visited' = visited
             /\ quantized' = quantized
             /\ qat_analysis_queue' = Tail(qat_analysis_queue)
        ELSE /\ visited' = visited \cup {node}
             /\ \A m \in Nodes(pgraph) \ {node} : quantized'[m] = quantized[m]
             /\ quantized'[node] =
                  IF kind = "output" /\ ~outputs_flagged THEN quantized[node]
                  ELSE IF kind \in {"QuantStub", "DeQuantStub"} THEN TRUE
                  ELSE incoming
             /\ qat_analysis_queue' =
                  Tail(qat_analysis_queue)
                  \o (IF kind = "output" THEN <<>>
                      ELSE [i \in 1..Len(succ) |-> <<succ[i], onward>>])

\* every node reachable from the seeds has been processed
C12_AllProcessed == ppc = "over" => visited = ReachableFrom(pgraph, Seeds(pgraph))

(* C12 as stated: every node reachable from the seeds is processed exactly *)
(* once, the first dequeued entry deciding and later entries changing      *)
(* nothing, and gets its quantized flag set: True for a QuantStub, whose   *)
(* successors receive True; True for a DeQuantStub, whose successors       *)
(* receive False; the incoming flag for any other node, whose successors   *)
(* receive the same flag; output nodes are not expanded further.           *)
C12_StepAsStated ==
    (ppc = "loop" /\ qat_analysis_queue' # qat_analysis_queue) =>
        C12_Dequeued(TRUE)

C12_AsStated == [][C12_StepAsStated]_vars /\ []C12_AllProcessed

(* C12 amended: the same, except that an output node is marked visited     *)
(* and keeps the quantized flag it had.                                    *)
C12_Step ==
    (ppc = "loop" /\ qat_analysis_queue' # qat_analysis_queue) =>
        C12_Dequeued(FALSE)

C12_FirstEntryDecides == [][C12_Step]_vars /\ []C12_AllProcessed

\* a node fed by a QuantStub and by a second node was analysed to the end,
\* so two entries for it were dequeued, and an output node was visited
C12_Witness ==
    /\ ppc = "over"
    /\ \E n, q \in visited :
        /\ pgraph[q].kind = "QuantStub"
        /\ q \in pgraph[n].prev
        /\ Cardinality(pgraph[n].prev) = 2
        /\ pgraph[n].prev \subseteq visited
    /\ \E o \in visited : pgraph[o].kind = "output"

-----------------------------------------------------------------------------
(* The fusion matcher.                                                     *)

ChainNames(c) == {c[i] : i \in 1..Len(c)}

ChainsDisjoint ==
    \A i, j \in 1..Len(quant_list) :
        i # j => ChainNames(quant_list[i]) \cap ChainNames(quant_list[j]) = {}

NoNameTwiceInAChain ==
    \A i \in 1..Len(quant_list) :
        Cardinality(ChainNames(quant_list[i])) = Len(quant_list[i])

RepeatsAType(rule) == \E i, j \in 1..Len(rule) : i # j /\ rule[i] = rule[j]

\* C1 as stated: for any graph and any rule trie, no name is in more than
\* one chain and no name is twice in one chain.
C1_AsStated == ChainsDisjoint /\ NoNameTwiceInAChain

\* C1: no name is in more than one chain, for any graph and any rule trie;
\* no name is twice in one chain when no rule names an operator type twice
\* or the names are the nodes' unique names.
C1_ChainsShareNoName ==
    /\ ChainsDisjoint
    /\ (~use_original_name(frules)
          \/ \A rule \in CurrentRuleSet(frules) : ~RepeatsAType(rule))
       => NoNameTwiceInAChain

\* a walk was cut at a name an earlier chain holds: without the check it
\* would have given a chain
C1_Witness ==
    /\ fpc = "done"
    /\ Len(quant_list) >= 1
    /\ \E n \in 1..Len(fgraph) :
         /\ check_node_quantized(frules) => fgraph[n].quantized
         /\ FusableWalk(fgraph, frules, {}, n, <<>>, <<>>, <<>>) # <<>>
         /\ \A i \in 1..Len(quant_list) :
              quant_list[i][Len(quant_list[i])] # NodeName(fgraph, frules, n)
         /\ \E i \in 1..Len(quant_list) :
              ChainNames(quant_list[i])
                \cap ChainNames(FusableWalk(fgraph, frules, {}, n, <<>>, <<>>, <<>>)) # {}

\* the nodes of the backward walk from n: each the only predecessor of the
\* one before it
RECURSIVE BackPath(_, _)
BackPath(g, n) ==
    IF Len(g[n].prev) = 1 THEN <<n>> \o BackPath(g, g[n].prev[1]) ELSE <<n>>

TypePath(g, bp, d) == [k \in 1..d |-> g[bp[k]].type]

\* the depths of the backward walk from n at which it stands on a
\* terminal trie node
TerminalDepths(g, call, seen, n) ==
    LET bp == BackPath(g, n)
    IN  { d \in 1..Len(bp) :
            /\ \A k \in 1..d :
                 /\ TrieHas(CurrentRules(call), TypePath(g, bp, k))
                 /\ NodeName(g, call, bp[k]) \notin seen
                 /\ Len(g[bp[k]].prev) >= 1
            /\ CurrentRules(call)[TypePath(g, bp, d)] }

DeepestChain(g, call, seen, n) ==
    LET bp == BackPath(g, n)
        d == Max(TerminalDepths(g, call, seen, n))
    IN  [k \in 1..d |-> NodeName(g, call, bp[d + 1 - k])]

ConvBnRelu ==
    << [type |-> "input", prev |-> <<>>, module |-> 1, quantized |-> FALSE],
       [type |-> "Conv2d", prev |-> <<1>>, module |-> 2, quantized |-> TRUE],
       [type |-> "BatchNorm2d", prev |-> <<2>>, module |-> 3, quantized |-> TRUE],
       [type |-> "ReLU", prev |-> <<3>>, module |-> 4, quantized |-> TRUE] >>

C5_Call ==
    (fpc = "filter" /\ fpos >= 1 /\ fpos' = fpos - 1) =>
        IF \/ check_node_quantized(frules) /\ ~fgraph[fpos].quantized
           \/ TerminalDepths(fgraph, frules, consumed, fpos) = {}
        THEN quant_list' = quant_list
        ELSE quant_list' =
                 Append(quant_list, DeepestChain(fgraph, frules, consumed, fpos))

C5_Scenario ==
    (fpc = "done" /\ frules = "qat" /\ fgraph = ConvBnRelu)
        => quant_list = << <<2, 3, 4>> >>

\* C5: a call of is_fusable appends the chain that ends at the deepest
\* terminal trie node its backward walk reaches, never a shallower one, and
\* nothing when it reaches none; on the quantized chain Conv2d ->
\* BatchNorm2d -> ReLU visited in reverse forward order the QAT rules give
\* the one chain [conv, bn, relu].
C5_LongestMatchWins == [][C5_Call]_vars /\ []C5_Scenario

\* the walk passed a shallower terminal node (BatchNorm2d, ReLU) on its
\* way to the chain of three
C5_Witness ==
    /\ fpc = "done"
    /\ frules = "qat"
    /\ fgraph = ConvBnRelu
    /\ quant_list = << <<2, 3, 4>> >>
    /\ QatTrie[<<"ReLU", "BatchNorm2d">>]

-----------------------------------------------------------------------------
(* The graph rewrite.                                                      *)

Vals == (0 - MaxVal)..MaxVal

\* the sub nodes the two-tensor branch takes
TwoTensorSubs(G) ==
    {n \in 1..Len(G.nodes) : /\ G.nodes[n].kind = "sub"
                             /\ Len(PrevTensors(G.nodes[n])) = 2
                             /\ Len(G.nodes[n].prev) = 2}

C10_Step ==
    (rpc = "sub" /\ rpc' = "stack") =>
        \A n \in TwoTensorSubs(Rgraph) :
            LET a == PrevTensors(rnodes[n])[1]
                b == PrevTensors(rnodes[n])[2]
                producer == rnodes[n].prev[2]
                new == PrevTensors(rnodes'[n])[2]
                After == [nodes |-> rnodes', order |-> rorder']
            IN  /\ new \notin 1..Len(rnodes)
                /\ rnodes'[new] = RwNode("mul", "__mul__",
                                         << <<"t", b>>, <<"k", -1>> >>, <<producer>>)
                /\ rnodes'[n].kind = "add"
                /\ rnodes'[n].args = << <<"t", a>>, <<"t", new>> >>
                /\ rnodes'[n].prev = <<rnodes[n].prev[1], new>>
                /\ RwNextNodes(After, new) = <<n>>
                /\ \A va, vb \in Vals :
                     Eval(After, n, (a :> va) @@ (b :> vb)) = va - vb

\* C10: the two-tensor sub rewrite turns sub(a, b) into a new mul(b, -1)
\* on the edge from the producer of b to the sub node and the sub node
\* into add(a, output of the mul), a first; for all values a, b of the
\* domain the rewritten node evaluates to a - b.
C10_SubBecomesAddOfNegated == [][C10_Step]_vars

\* a graph after the sub pass with an add of a tensor and a mul by -1 that
\* evaluates 2 - (-1) to 3
C10_Witness ==
    /\ rpc = "stack"
    /\ \E n \in 1..Len(rnodes) :
        /\ rnodes[n].kind = "add"
        /\ rnodes[n].func_type = "__add__"
        /\ Len(PrevTensors(rnodes[n])) = 2
        /\ LET a == PrevTensors(rnodes[n])[1]
               new == PrevTensors(rnodes[n])[2]
           IN  /\ rnodes[new].kind = "mul"
               /\ rnodes[new].args[2] = <<"k", -1>>
               /\ Eval(Rgraph, n, (a :> 2) @@ (PrevTensors(rnodes[new])[1] :> -1)) = 3

-----------------------------------------------------------------------------
(* The pipeline.                                                           *)

\* the model is input -> Conv2d -> BatchNorm2d -> ReLU -> output: the nodes
\* 1 .. 5 of the traced graph
ConvBnReluModel ==
    /\ Len(rnodes) >= 5
    /\ [n \in 1..5 |-> rnodes[n].kind]
         = <<"input", "Conv2d", "BatchNorm2d", "ReLU", "output">>

\* C6: the pipeline with the default configuration on input -> Conv2d ->
\* BatchNorm2d -> ReLU -> output leaves a QuantStub directly after the
\* input, a DeQuantStub directly before the output, the one fusion chain
\* [conv, bn, relu] and graph.quantized True.
C6_ConvBnReluPipeline ==
    (ConvBnReluModel /\ fpc = "done") =>
        /\ Len(rnodes) = 7
        /\ rnodes[6].kind = "QuantStub" /\ rnodes[7].kind = "DeQuantStub"
        /\ rorder = <<1, 6, 2, 3, 4, 7, 5>>
        /\ rnodes[6].prev = <<1>> /\ RwNextNodes(Rgraph, 1) = <<6>>
        /\ rnodes[2].prev = <<6>>
        /\ rnodes[7].prev = <<4>> /\ rnodes[5].prev = <<7>>
        /\ quant_list = << <<3, 4, 5>> >>
        /\ [i \in 3..5 |-> fgraph[i].type] = [i \in 3..5 |-> rnodes[i - 1].kind]
        /\ rquantized
        /\ graph_quantized

C6_Witness ==
    /\ ConvBnReluModel
    /\ fpc = "done"
    /\ quant_list = << <<3, 4, 5>> >>
    /\ graph_quantized

-----------------------------------------------------------------------------
(* The cat unifier.                                                        *)

C9_Step ==
    (catpc = "while" /\ cat_q = <<>> /\ catpc' = "for" /\ Len(parents) > 1) =>
        /\ \A i \in 1..Len(parents) : holds'[parents[i]] = holds[parents[1]]
        /\ \A n \in 1..Len(holds) :
             (\A i \in 1..Len(parents) : parents[i] # n) => holds'[n] = holds[n]

\* two modules with a fake-quantize, both fed by node 1, feed a quantized cat
TwoBranchCat ==
    /\ Len(cgraph) = 4
    /\ cgraph[2] = [kind |-> "mod", prev |-> <<1>>, quantized |-> TRUE]
    /\ cgraph[3] = [kind |-> "mod", prev |-> <<1>>, quantized |-> TRUE]
    /\ cgraph[4] = [kind |-> "cat", prev |-> <<2, 3>>, quantized |-> TRUE]

C9_Scenario ==
    (TwoBranchCat /\ catpc = "done") => (holds[2] = holds[3] /\ holds[2] = holds[4])

\* C9: when the walk for one quantized cat node has recorded more than one
\* holder, every recorded holder is made to refer to the very instance the
\* first recorded holder referred to, and no other holder changes; with
\* two parallel fake-quantize modules feeding a cat, the two upstream
\* holders refer to one instance after the pass.
C9_HoldersShareFirstInstance == [][C9_Step]_vars /\ []C9_Scenario

C9_Witness ==
    /\ TwoBranchCat
    /\ catpc = "done"
    /\ parents = <<4, 2, 3>>
    /\ holds[2] = 4 /\ holds[3] = 4 /\ holds[4] = 4

-----------------------------------------------------------------------------
(* The div rewrite.                                                        *)

\* the tensors x the results are compared on
RatVals == {<<4, 1>>, <<1, 2>>, <<-3, 1>>}

\* the number a written divisor stands for
Divisor(node) == PyFloat(ArgsString(node)).val

\* the div nodes selected by the div rewrite whose divisor is not zero
SelectedDivs(G) ==
    {n \in 1..Len(G.nodes) : IsDivNode(G, n) /\ Divisor(G.nodes[n])[1] # 0}

\* C11 as stated: for every div node selected by the div rewrite, whatever
\* form its non-zero divisor c is written in (integer, decimal, exponent),
\* the rewrite completes and leaves a mul node (an in-place mul for an
\* in-place div) with the constant 1/c, whose result equals x / c
C11_Step ==
    (rpc = "div" /\ rpc' # "div" /\ SelectedDivs(Rgraph) # {}) =>
        /\ rpc' = "sub"
        /\ \A n \in SelectedDivs(Rgraph) :
            LET c == Divisor(rnodes[n])
                inplace == rnodes[n].func_type \in InplaceDivs
            IN  /\ rnodes'[n].kind = "mul"
                /\ rnodes'[n].func_type = IF inplace THEN "__imul__" ELSE "__mul__"
                /\ rnodes'[n].args =
                      << <<"t", PrevTensors(rnodes[n])[1]>>, <<"k", RatDiv(<<1, 1>>, c)>> >>
                /\ \A x \in RatVals :
                      RatMul(x, rnodes'[n].args[2][2]) = RatDiv(x, c)

C11_AsStated == [][C11_Step]_vars

\* a selected div node whose divisor is written with an exponent and
\* without a point has stopped the rewrite
C11_Witness ==
    /\ rpc = "raised"
    /\ \E n \in 1..Len(rnodes) :
        /\ rnodes[n].kind = "mul"
        /\ \E i \in 1..Len(rnodes[n].args) :
              rnodes[n].args[i] = <<"s", <<"1", "e", "-", "0", "5">> >>

-----------------------------------------------------------------------------
(* The isolation of the ops without a quantized implementation.            *)

RgraphNext == [nodes |-> rnodes', order |-> rorder']

Unsupported(G) == {n \in 1..Len(G.nodes) : n \in Range(G.order) /\ IsNotQuantizable(G, n)}

Producers(G, n) == Range(G.nodes[n].prev)

Consumers(G, n) == Range(RwNextNodes(G, n))

\* the isolation pass is taking its step
IsolationStep == rpc = "isolate" /\ rpc' = "collapse"

(* C13 as stated: for every op with no quantized implementation the        *)
(* isolation puts a QuantStub on every distinct incoming tensor edge of    *)
(* the op and a DeQuantStub on every outgoing edge, one marker for every   *)
(* distinct producer output tensor.                                        *)
C13_StepAsStated ==
    IsolationStep =>
        \A n \in Unsupported(Rgraph) :
            /\ \A p \in Producers(RgraphNext, n) : rnodes'[p].kind = "QuantStub"
            /\ \A m \in Consumers(RgraphNext, n) : rnodes'[m].kind = "DeQuantStub"
            /\ Cardinality(Producers(RgraphNext, n)) = Cardinality(Producers(Rgraph, n))

C13_AsStated == [][C13_StepAsStated]_vars

(* C13 amended: the markers are the other way round.  Every distinct       *)
(* producer of the op gets one new DeQuantStub on its edge to the op, read *)
(* by the op alone; every consumer of the op reads a new QuantStub fed by  *)
(* the op, and the consumers that read the output of the op the same       *)
(* number of times share one QuantStub.                                    *)
C13_Step ==
    IsolationStep =>
        \A n \in Unsupported(Rgraph) :
            LET new == (Len(rnodes) + 1)..Len(rnodes')
                \* the producer as the op sees it once the markers after the
                \* unsupported producers are in place
                seen(p) == IF p \in Unsupported(Rgraph)
                           THEN CHOOSE q \in new :
                                  /\ rnodes'[q].kind = "QuantStub"
                                  /\ rnodes'[q].prev = <<p>>
                                  /\ \E d \in Producers(RgraphNext, n) : rnodes'[d].prev = <<q>>
                           ELSE p
            IN  /\ \A d \in Producers(RgraphNext, n) :
                    /\ d \in new
                    /\ rnodes'[d].kind = "DeQuantStub"
                    /\ Consumers(RgraphNext, d) = {n}
                    /\ \E p \in Producers(Rgraph, n) : rnodes'[d].prev = <<seen(p)>>
                /\ Cardinality(Producers(RgraphNext, n)) = Cardinality(Producers(Rgraph, n))
                /\ \A q \in Consumers(RgraphNext, n) :
                    /\ q \in new
                    /\ rnodes'[q].kind = "QuantStub"
                    /\ rnodes'[q].prev = <<n>>
                /\ Cardinality(Consumers(RgraphNext, n)) =
                     Cardinality({PrevIdx(Rgraph, n, m) : m \in Consumers(Rgraph, n)})
                /\ \A m1, m2 \in Consumers(Rgraph, n) :
                     LET stub(m) == CHOOSE q \in Consumers(RgraphNext, n) :
                                      \/ q \in Producers(RgraphNext, m)
                                      \/ \E d \in Producers(RgraphNext, m) :
                                            rnodes'[d].prev = <<q>>
                     IN  stub(m1) = stub(m2) <=>
                           PrevIdx(Rgraph, n, m1) = PrevIdx(Rgraph, n, m2)

C13_MarkersAroundUnsupported == [][C13_Step]_vars

\* an unsupported op whose output fans out to two consumers has been
\* isolated: a DeQuantStub before it, one QuantStub after it for both
C13_Witness ==
    /\ rpc = "collapse"
    /\ \E n \in 1..Len(rnodes) :
        /\ IsNotQuantizable(Rgraph, n)
        /\ Producers(Rgraph, n) # {}
        /\ \A d \in Producers(Rgraph, n) : rnodes[d].kind = "DeQuantStub"
        /\ \E q \in Consumers(Rgraph, n) :
            /\ rnodes[q].kind = "QuantStub"
            /\ Cardinality(Consumers(Rgraph, q)) = 2

-----------------------------------------------------------------------------
(* The markers after the chains of the extra rules.                        *)

\* the chains the matcher finds with the extra rules in the graph G
ExtraChains(G) ==
    Range(FilterFusable(AsFuseGraph(G), "extra", G.order, Len(G.order), << <<>>, {} >>)[1])

\* the extra-rule pass is taking its step
ExtraStep == rpc = "extra" /\ rpc' = "finish"

\* nothing is rewritten after the extra-rule pass
C14_Final == rpc = "finish" => (rnodes' = rnodes /\ rorder' = rorder)

(* C14 as stated: in the final graph the last node of every chain found by *)
(* the matcher with the extra rules is immediately followed by a QuantStub *)
(* which is immediately followed by a DeQuantStub, and the pair is not     *)
(* removed by the collapse of consecutive markers.                         *)
C14_StepAsStated ==
    ExtraStep =>
        \A names \in ExtraChains(Rgraph) :
            LET node == names[Len(names)]
            IN  \E q, d \in 1..Len(rnodes') :
                    /\ rnodes'[q].kind = "QuantStub" /\ rnodes'[d].kind = "DeQuantStub"
                    /\ Consumers(RgraphNext, node) = {q}
                    /\ Consumers(RgraphNext, q) = {d}

C14_AsStated == [][C14_StepAsStated /\ C14_Final]_vars

(* C14 amended: the last node of every chain is immediately followed by a  *)
(* DeQuantStub which is immediately followed by a QuantStub, and the       *)
(* QuantStub is read by the nodes that read the last node before; the pair *)
(* stays in the final graph.                                               *)
C14_Step ==
    ExtraStep =>
        \A names \in ExtraChains(Rgraph) :
            LET node == names[Len(names)]
            IN  \E q, d \in (Len(rnodes) + 1)..Len(rnodes') :
                    /\ rnodes'[q].kind = "QuantStub" /\ rnodes'[d].kind = "DeQuantStub"
                    /\ Consumers(RgraphNext, node) = {d} /\ rnodes'[d].prev = <<node>>
                    /\ Consumers(RgraphNext, d) = {q} /\ rnodes'[q].prev = <<d>>
                    /\ Consumers(RgraphNext, q) = Consumers(Rgraph, node)

C14_DequantThenQuantAfterChain == [][C14_Step /\ C14_Final]_vars

\* a chain that ends in a ReLU6 was found and the rewrite is over: the
\* ReLU6 is followed by a DeQuantStub and that by a QuantStub
C14_Witness ==
    /\ rpc = "rewritten"
    /\ \E n, d, q \in 1..Len(rnodes) :
        /\ rnodes[n].kind = "ReLU6"
        /\ rnodes[d].kind = "DeQuantStub" /\ rnodes[d].prev = <<n>>
        /\ rnodes[q].kind = "QuantStub" /\ rnodes[q].prev = <<d>>
        /\ rnodes[rnodes[n].prev[1]].kind \in {"Conv2d", "BatchNorm2d", "add"}

-----------------------------------------------------------------------------
(* The promotion of add and mul to FloatFunctional calls.                  *)

\* the promotion pass is taking its step
PromoteStep == rpc = "promote" /\ rpc' # "promote"

\* the add and mul nodes in the reflected form
ReflectedNodes(G) ==
    {n \in Range(G.order) : G.nodes[n].kind \in {"add", "mul"}
                            /\ G.nodes[n].func_type \in Reflected}

\* the written operand holds '=' or ', '
Untranslatable(node) ==
    Contains(ArgsString(node), "=") \/ ContainsCommaSpace(ArgsString(node))

(* C15 as stated: the promotion normalizes every add or mul node whose     *)
(* function type is __radd__ or __rmul__: with one tensor the written      *)
(* operand is parsed and the arguments become (tensor, number); with two   *)
(* tensors the arguments become the two tensors swapped; a written operand *)
(* that holds '=' or ', ' is a fatal assertion.                            *)
C15_StepAsStated ==
    PromoteStep =>
        IF \E n \in ReflectedNodes(Rgraph) : Untranslatable(rnodes[n])
        THEN rpc' = "raised"
        ELSE \A n \in ReflectedNodes(Rgraph) :
                LET ts == PrevTensors(rnodes[n])
                IN  rnodes'[n].args =
                      IF Len(ts) = 1
                      THEN << <<"t", ts[1]>>, <<"k", PyFloat(ArgsString(rnodes[n])).val>> >>
                      ELSE << <<"t", ts[2]>>, <<"t", ts[1]>> >>

C15_AsStated == [][C15_StepAsStated]_vars

\* the promotion is over without an exception and a node has a written
\* operand with '=' that has not been parsed
C15_Witness ==
    /\ rpc = "addrelu"
    /\ \E n \in 1..Len(rnodes) :
        /\ rnodes[n].kind \in {"add", "mul"}
        /\ rnodes[n].func_type \in {"add_scalar", "mul_scalar"}
        /\ rnodes[n].args[2] = <<"s", KeywordLiteral>>

\* the add and mul nodes that are in-place operations
InplaceFuncs == {"__iadd__", "__imul__", "add_", "mul_"}

InplaceNodes(G) ==
    {n \in Range(G.order) : G.nodes[n].kind \in {"add", "mul"}
                            /\ G.nodes[n].func_type \in InplaceFuncs}

(* C16 as stated: for every add or mul node that is an in-place operation  *)
(* the promotion records aliases on the node: its own first tensor name,   *)
(* preceded by the aliases or names of the in-place producers found by     *)
(* walking back from its first predecessor, so that the add+relu check     *)
(* sees a non-empty alias list for an in-place add.                        *)
C16_StepAsStated ==
    PromoteStep =>
        \A n \in InplaceNodes(Rgraph) :
            LET aliases == rnodes'[n].aliases
                p == rnodes[n].prev[1]
            IN  /\ aliases # <<>>
                /\ aliases[Len(aliases)] = n
                /\ aliases = AliasWalk(RgraphNext, <<p>>, <<n>>)
                /\ (~IsTraceFunction(rnodes[p]) /\ rnodes[p].inplace)
                      => \E i \in 1..(Len(aliases) - 1) : aliases[i] = rnodes[p].prev[1]

C16_AsStated == [][C16_StepAsStated]_vars

\* the nodes of the aliased tensor chain of an add: its first predecessor
\* and, as long as that is an in-place operation, the first predecessor of
\* that; inplace_nodes are the add and mul nodes traced as in-place
RECURSIVE AliasChain(_, _, _)
AliasChain(G, inplace_nodes, m) ==
    IF (~IsTraceFunction(G.nodes[m]) /\ G.nodes[m].inplace) \/ m \in inplace_nodes
    THEN {m} \cup AliasChain(G, inplace_nodes, G.nodes[m].prev[1])
    ELSE {m}

(* C17 as stated: an add is fused with the following relu into add_relu    *)
(* only if the add has exactly one consumer and that is a relu, the add    *)
(* has exactly two tensor operands, and, when the relu is not in-place and *)
(* the add is in-place, no other consumer of a node of the aliased tensor  *)
(* chain of the add has a forward order between the add and the relu.      *)
C17_AsStated ==
    rpc = "promote" =>
        LET R == PromoteAll(Rgraph, NodesOfKind(Rgraph, {"add", "mul"}), 1)
            G == R.G
            F == FuseAddRelus(G, SelectSeq(G.order, LAMBDA n : IsAddReluFusable(G, n)), 1)
        IN  R.raised = "" =>
            \A n \in Range(G.order) :
                (G.nodes[n].kind = "add" /\ F.nodes[n].kind = "add_relu") =>
                    LET next_nodes == RwNextNodes(G, n)
                        relu == next_nodes[1]
                    IN  /\ Len(next_nodes) = 1
                        /\ G.nodes[relu].kind \in {"relu", "ReLU"}
                        /\ Len(PrevTensors(G.nodes[n])) = 2
                        /\ (~ReluInplace(G.nodes[relu]) /\ n \in InplaceNodes(Rgraph)) =>
                              \A m \in AliasChain(G, InplaceNodes(Rgraph), G.nodes[n].prev[1]) :
                                  \A c \in Consumers(G, m) \ {n} :
                                      ~ (/\ ForwardOrder(G, n) < ForwardOrder(G, c)
                                         /\ ForwardOrder(G, c) < ForwardOrder(G, relu))

\* an add on x has been fused with the ReLU that followed it although a
\* ReLU that is not in-place reads x between the two
C17_Witness ==
    /\ rpc = "isolate"
    /\ Len(rnodes) >= 4
    /\ rnodes[2].kind = "add_relu"
    /\ rnodes[3].kind = "ReLU" /\ ~rnodes[3].inplace
    /\ rnodes[3].prev[1] = rnodes[2].prev[1]
    /\ rnodes[4].kind = "removed"

-----------------------------------------------------------------------------
(* The collapse of consecutive markers.                                    *)

\* the collapse pass is taking its step
CollapseStep == rpc = "collapse" /\ rpc' = "extra"

\* the adjacent pairs of markers of different kinds
AdjacentPairs(G) ==
    {ab \in Range(G.order) \X Range(G.order) :
        /\ G.nodes[ab[1]].kind \in StubKinds /\ G.nodes[ab[2]].kind \in StubKinds
        /\ G.nodes[ab[1]].kind # G.nodes[ab[2]].kind
        /\ ab[2] \in Consumers(G, ab[1])}

(* C18: the collapse removes an adjacent pair of markers of different      *)
(* kinds exactly when the first marker has one consumer, namely the second *)
(* marker: the consumers of the second marker then read what the first     *)
(* marker read; otherwise both markers and their edges are unchanged.      *)
C18_Step ==
    CollapseStep =>
        \A ab \in AdjacentPairs(Rgraph) :
            LET a == ab[1]
                b == ab[2]
            IN  IF Consumers(Rgraph, a) = {b}
                THEN /\ rnodes'[a].kind = "removed" /\ rnodes'[b].kind = "removed"
                     /\ a \notin Range(rorder') /\ b \notin Range(rorder')
                     /\ \A c \in Consumers(Rgraph, b) :
                          /\ b \notin Producers(RgraphNext, c)
                          /\ rnodes[a].prev[1] \in Producers(RgraphNext, c)
                ELSE /\ rnodes'[a] = rnodes[a] /\ rnodes'[b] = rnodes[b]
                     /\ a \in Range(rorder') /\ b \in Range(rorder')
                     /\ Consumers(RgraphNext, a) = Consumers(Rgraph, a)
                     /\ Consumers(RgraphNext, b) = Consumers(Rgraph, b)

C18_CollapseIffOneConsumer == [][C18_Step]_vars

\* the collapse is over: a pair has been removed, and a QuantStub read by
\* a DeQuantStub and by another node is still there
C18_Witness ==
    /\ rpc = "extra"
    /\ \E n \in 1..Len(rnodes) : rnodes[n].kind = "removed"
    /\ \E ab \in AdjacentPairs(Rgraph) : Cardinality(Consumers(Rgraph, ab[1])) > 1

-----------------------------------------------------------------------------
(* The boundary insertion.                                                 *)

\* the second loop of the boundary insertion is taking its step
BoundaryStep == rpc = "dequant" /\ rpc' = "neg"

Markers(G) == {n \in Range(G.order) : G.nodes[n].kind \in StubKinds}

\* the inputs, the constants and the creation functions
Sources(G) ==
    {n \in Range(G.order) :
        G.nodes[n].kind \in {"input", "constant"} \cup creation_func_names}

Outputs(G) == {n \in Range(G.order) : G.nodes[n].kind = "output"}

(* C19: after the boundary insertion every input, constant and creation    *)
(* function is read by one QuantStub of its own and by nothing else; every *)
(* output reads DeQuantStubs only, one where the output had one producer   *)
(* and one for each producer where rev_index is set, each reading what the *)
(* output read; and no two inserted markers have the same name.            *)
C19_Step ==
    BoundaryStep =>
        /\ \A n \in Sources(RgraphNext) :
             \E q \in Markers(RgraphNext) :
                /\ rnodes'[q].kind = "QuantStub"
                /\ rnodes'[q].prev = <<n>>
                /\ Consumers(RgraphNext, n) = {q}
                /\ \A r \in Sources(RgraphNext) \ {n} : q \notin Consumers(RgraphNext, r)
        /\ \A o \in Outputs(RgraphNext) :
             /\ Len(rnodes'[o].prev) = Len(rnodes[o].prev)
             /\ ~rnodes[o].rev_index => Len(rnodes'[o].prev) = 1
             /\ \A k \in 1..Len(rnodes'[o].prev) :
                  LET d == rnodes'[o].prev[k]
                  IN  /\ rnodes'[d].kind = "DeQuantStub"
                      /\ rnodes'[d].prev = <<rnodes[o].prev[k]>>
                      /\ Consumers(RgraphNext, d) = {o}
                      /\ \A j \in 1..Len(rnodes'[o].prev) :
                           j # k => rnodes'[o].prev[j] # d
        /\ \A m \in Markers(RgraphNext) :
             /\ rnodes'[m].name # <<>>
             /\ \A x \in Markers(RgraphNext) \ {m} : rnodes'[x].name # rnodes'[m].name

C19_MarkersAtBoundaries == [][C19_Step]_vars

\* the markers are in: the graph has a constant, a creation function and an
\* output with rev_index that reads two DeQuantStubs
C19_Witness ==
    /\ rpc = "neg"
    /\ \E n \in Range(rorder) : rnodes[n].kind = "constant"
    /\ \E n \in Range(rorder) : rnodes[n].kind \in creation_func_names
    /\ \E o \in Outputs(Rgraph) :
         /\ rnodes[o].rev_index
         /\ Len(rnodes[o].prev) = 2
         /\ rnodes[rnodes[o].prev[1]].kind = "DeQuantStub"
         /\ rnodes[rnodes[o].prev[2]].kind = "DeQuantStub"

-----------------------------------------------------------------------------
(* The promotion of BatchNorm1d.                                           *)

\* the BatchNorm1d pass is taking its step
BatchNormStep == rpc = "bn1d" /\ rpc' = "isolate"

\* the nodes _is_batch_norm_1d selects
SelectedBatchNorms(G) == {n \in Range(G.order) : IsBatchNorm1d(G, n)}

\* node n has become a BatchNorm2d with the statistics it had, an unsqueeze
\* on dim 2 is its producer and stands directly before it, a squeeze on
\* dim 2 is its one consumer and stands directly after it
Bracketed(n) ==
    /\ rnodes'[n].kind = "BatchNorm2d"
    /\ rnodes'[n].state = rnodes[n].state
    /\ Len(rnodes'[n].prev) = 1
    /\ LET u == rnodes'[n].prev[1]
       IN  /\ rnodes'[u].kind = "unsqueeze"
           /\ rnodes'[u].args = << <<"t", rnodes'[u].prev[1]>>, <<"k", 2>> >>
           /\ PositionIn(rorder', u) + 1 = PositionIn(rorder', n)
    /\ \E s \in Range(rorder') :
           /\ Consumers(RgraphNext, n) = {s}
           /\ rnodes'[s].kind = "squeeze"
           /\ rnodes'[s].args = << <<"t", n>>, <<"k", 2>> >>
           /\ PositionIn(rorder', n) + 1 = PositionIn(rorder', s)

(* C20: every node the batchnorm-promotion predicate selects, a            *)
(* BatchNorm1d module or a functional batch_norm on a tensor of three      *)
(* dimensions, becomes a BatchNorm2d with the same statistics, with an     *)
(* unsqueeze on dim 2 directly before it and a squeeze on dim 2 directly   *)
(* after it.                                                               *)
C20_StepAsStated ==
    BatchNormStep => \A n \in SelectedBatchNorms(Rgraph) : Bracketed(n)

C20_AsStated == [][C20_StepAsStated]_vars

\* the pass is over: a BatchNorm1d module has become a BatchNorm2d between
\* an unsqueeze and a squeeze, and a functional batch_norm on a tensor of
\* three dimensions, not behind a conv1d, is as it was
C20_Witness ==
    /\ rpc = "isolate"
    /\ \E n \in Range(rorder) :
         /\ rnodes[n].kind = "BatchNorm2d"
         /\ rnodes[n].name = RewrittenBn2dName(0)
         /\ rnodes[rnodes[n].prev[1]].kind = "unsqueeze"
         /\ \E s \in Consumers(Rgraph, n) : rnodes[s].kind = "squeeze"
    /\ \E n \in Range(rorder) :
         /\ rnodes[n].kind = "batch_norm"
         /\ IsBatchNorm1d(Rgraph, n)

-----------------------------------------------------------------------------
(* The seeding of the input statistics.                                    *)

\* prepare_quantized_inputs_pass is taking its step on a list of statistics
InputsStep == prpc = "inputs" /\ prep_self.quantized_input_stats # None

\* the QuantStubs directly after input number i
StubsAfterInput(i) ==
    {q \in Range(NextNodes(pgraph, InputNodes(pgraph)[i])) : pgraph[q].kind = "QuantStub"}

(* C21: in the pass that seeds the input statistics, a list whose length   *)
(* is not the number of inputs is rejected by an assertion with no module  *)
(* changed; otherwise the pass ends without an exception, the QuantStubs   *)
(* after an input whose entry is None are left as they were, and every     *)
(* QuantStub directly after an input whose entry is a pair is given that   *)
(* pair.                                                                   *)
C21_StepAsStated ==
    InputsStep =>
        LET qis == prep_self.quantized_input_stats
            has_acp == HasAcp(pgraph, "qconfig" \in Range(prep_done),
                              "observers" \in Range(prep_done), quantized)
        IN  IF Len(qis) # Len(InputNodes(pgraph))
            THEN /\ prpc' = "raised"
                 /\ prep_done'[Len(prep_done')] = "AssertionError"
                 /\ stub_stats' = stub_stats
            ELSE /\ prpc' = "ops"
                 /\ \A i \in 1..Len(qis) : \A q \in StubsAfterInput(i) :
                      IF qis[i] = None
                      THEN \/ stub_stats'[q] = stub_stats[q]
                           \/ \E j \in 1..Len(qis) :
                                qis[j] # None /\ q \in StubsAfterInput(j)
                      ELSE has_acp[q] =>
                             stub_stats'[q] = ModuleQuantization(qis[i][1], qis[i][2])

C21_AsStated == [][C21_StepAsStated]_vars

\* the pass has ended with a TypeError: an input whose entry is None is
\* followed by a QuantStub
C21_Witness ==
    /\ prpc = "raised"
    /\ prep_done[Len(prep_done)] = "TypeError"
    /\ \E i \in 1..Len(InputNodes(pgraph)) :
         /\ prep_self.quantized_input_stats[i] = None
         /\ StubsAfterInput(i) # {}

-----------------------------------------------------------------------------
(* The fallback of the preparation.                                        *)

\* prepare_qat has ended
PrepEnded == prpc \in {"returned", "raised"}

(* C22: when the analysis leaves graph.quantized False, prepare_qat of     *)
(* either class runs no step: no fusion, no qconfig, no conversion, no     *)
(* observer and no post-pass, and it returns the model.                    *)
C22_AsStated ==
    (PrepEnded /\ ~graph_quantized) => (prpc = "returned" /\ prep_done = <<>>)

\* prepare_qat of PostQuantizer has ended on a graph that is not quantized,
\* after the observers were put in and the input statistics pass was run
C22_Witness ==
    /\ PrepEnded
    /\ ~graph_quantized
    /\ prep_self.cls = "PostQuantizer"
    /\ "observers" \in Range(prep_done)
    /\ "inputs_pass" \in Range(prep_done)

-----------------------------------------------------------------------------
(* The stack rewrite *)

StackStep == rpc = "stack" /\ rpc' \in {"promote", "raised"}

StackNodes == {n \in 1..Len(rnodes) : IsStackNode(Rgraph, n)}

\* the distinct tensors stack node n reads
Operands(n) == Range(TensorArgs(rnodes[n]))

\* the dim written on stack node n: 0 when none is written
WrittenDim(n) == IF StackArgs(rnodes[n]) = <<>> THEN 0 ELSE 1

\* the stack nodes the loop cannot rewrite: another argument follows the
\* dim, or one producer supplies two different operands
UnsupportedStack(n) ==
    \/ Contains(StackArgs(rnodes[n]), ",")
    \/ \E a, b \in Operands(n) : a # b /\ a[2] = b[2]

\* the nodes the step created
Created == (Len(rnodes) + 1)..Len(rnodes')

\* the created unsqueeze nodes placed before node n, after the step
UnsqueezesBefore(n) ==
    {u \in Created : rnodes'[u].kind = "unsqueeze" /\ <<"t", u>> \in Range(rnodes'[n].args)}

\* C23 as stated: every stack node becomes a cat node with one unsqueeze
\* node per operand position, also when a tensor is stacked twice or one
\* producer supplies several operands
C23_StepAsStated ==
    StackStep =>
        \A n \in StackNodes :
            /\ rnodes'[n].kind = "cat"
            /\ Cardinality(UnsqueezesBefore(n)) = Len(TensorArgs(rnodes[n]))

C23_AsStated == [][C23_StepAsStated]_vars

\* C23, amended: the stack rewrite fails with an exception, the pass going
\* no further, exactly when some stack node has another argument after the
\* dim or reads two different tensors of one producer; otherwise every stack
\* node becomes a cat node and gets one unsqueeze node per distinct operand
\* tensor (a tensor stacked twice gets one), each reading that tensor with
\* the dim written on the stack node, 0 when none is written, and nothing
\* else is created.
C23_Step ==
    StackStep =>
        /\ rpc' = "raised" <=> \E n \in StackNodes : UnsupportedStack(n)
        /\ rpc' = "promote" =>
            /\ \A n \in StackNodes :
                /\ rnodes'[n].kind = "cat" /\ rnodes'[n].func_type = "cat"
                /\ Cardinality(UnsqueezesBefore(n)) = Cardinality(Operands(n))
                /\ \A t \in Operands(n) :
                    \E u \in UnsqueezesBefore(n) :
                        /\ rnodes'[u].args = <<t, <<"k", WrittenDim(n)>> >>
                        /\ rnodes'[u].prev = <<t[2]>>
            /\ \A u \in Created : \E n \in StackNodes : u \in UnsqueezesBefore(n)
            /\ \A n \in 1..Len(rnodes) : n \notin StackNodes => rnodes'[n] = rnodes[n]

C23_StackBecomesUnsqueezeCat == [][C23_Step]_vars

\* the rewrite has turned a stack of one tensor taken twice, written with
\* dim=1, into a cat node behind one unsqueeze node on dim 1
C23_Witness ==
    /\ rpc = "promote"
    /\ \E n \in 1..Len(rnodes) :
        /\ rnodes[n].kind = "cat"
        /\ StackArgs(rnodes[n]) = <<"d", "i", "m", "=", "1">>
        /\ Len(TensorArgs(rnodes[n])) = 2
        /\ rnodes[n].args[1] = rnodes[n].args[2]
        /\ \E u \in 1..Len(rnodes) :
            /\ rnodes[n].args[1] = <<"t", u>>
            /\ rnodes[u].kind = "unsqueeze"
            /\ rnodes[u].args[2] = <<"k", 1>>

-----------------------------------------------------------------------------
(* The order of the steps of error_analysis *)

Flag(mods, f) == [m \in DOMAIN mods |-> mods[m][f]]

AllOff(mods, f) == \A m \in DOMAIN mods : mods[m][f] = 0

\* the forward pass that captures the inputs
CaptureStep == eapc = "forward" /\ eapc' # "forward"

\* a module is replayed on its captured input
ReplayStep == Len(float_results') < Len(float_results)

\* C24: the capture runs with fake quantization and the observers off and
\* a hook on every module; a replay runs with no hook left, with every
\* fake_quant_enabled back at its value before the call and with the
\* observers still off, so no observer takes anything in; observer_enabled
\* changes back only when nothing is left to replay; and when
\* error_analysis returns, both flags of every module are what they were
\* before the call and no hook is left.
C24_Step ==
    /\ CaptureStep =>
        /\ AllOff(fq_modules, "fake_quant_enabled")
        /\ AllOff(fq_modules, "observer_enabled")
        /\ hooks = DOMAIN fq_modules
    /\ ReplayStep =>
        /\ hooks = {}
        /\ Flag(fq_modules, "fake_quant_enabled") = Flag(before, "fake_quant_enabled")
        /\ AllOff(fq_modules, "observer_enabled")
        /\ Flag(fq_modules', "observed") = Flag(before, "observed")
    /\ (eapc \notin {"call", "disable"}
            /\ Flag(fq_modules', "observer_enabled") # Flag(fq_modules, "observer_enabled")) =>
        /\ float_results = <<>>
        /\ hooks = {}
        /\ Flag(fq_modules, "fake_quant_enabled") = Flag(before, "fake_quant_enabled")
    /\ eapc' = "returned" =>
        /\ Flag(fq_modules', "fake_quant_enabled") = Flag(before, "fake_quant_enabled")
        /\ Flag(fq_modules', "observer_enabled") = Flag(before, "observer_enabled")
        /\ hooks' = {}

C24_StepsInOrder == [][C24_Step]_vars

\* error_analysis has returned for a model of two modules, both run by the
\* forward pass and replayed, one of which had both flags on
C24_Witness ==
    /\ eapc = "returned"
    /\ Len(called) = 2
    /\ float_results = <<>>
    /\ \E m \in DOMAIN fq_modules :
        before[m].fake_quant_enabled = 1 /\ before[m].observer_enabled = 1
    /\ \E m \in DOMAIN fq_modules : before[m].fake_quant_enabled = 0

-----------------------------------------------------------------------------
(* The ops with no quantized implementation, after the analysis *)

\* the node of the rewritten graph that is number i of the forward order
NodeAt(i) == rorder[i]

\* C25 as stated: when the analysis of the rewritten graph is over, whatever
\* is_input_quantized and the dtypes of the constants are, no node that
\* _is_not_quantizable selects has quantized set.
C25_AsStated ==
    (rpc = "rewritten" /\ ppc = "over") =>
        \A i \in 1..Len(rorder) :
            IsNotQuantizable(Rgraph, NodeAt(i)) => ~quantized[i]

\* the analysis is over for a graph where an op with no quantized
\* implementation reads an input declared quantized, the two markers between
\* them having been removed as a pair, and the op has quantized set
C25_Witness ==
    /\ rpc = "rewritten" /\ ppc = "over"
    /\ \E i, j \in 1..Len(rorder) :
        /\ IsNotQuantizable(Rgraph, NodeAt(i))
        /\ pgraph[j].kind = "input" /\ pgraph[j].flag
        /\ pgraph[i].prev = {j}
        /\ quantized[i]

-----------------------------------------------------------------------------
(* The shape of the chains is_fusable returns *)

\* the k nodes the walk from node n has gone through, earliest first
RECURSIVE ChainNodes(_, _, _)
ChainNodes(g, n, k) ==
    IF k = 1 THEN <<n>> ELSE Append(ChainNodes(g, g[n].prev[1], k - 1), n)

\* is_fusable is called on node fpos and returns a chain
ChainStep == fpc = "filter" /\ fpos >= 1 /\ Len(quant_list') > Len(quant_list)

\* the chain the call returns, as nodes
ReturnedChain == ChainNodes(fgraph, fpos, Len(quant_list'[Len(quant_list')]))

FuseConsumers(n) == {m \in 1..Len(fgraph) : n \in Range(fgraph[m].prev)}

\* every member but the earliest has the member before it as its one
\* predecessor
LinearBackwards(c) == \A i \in 2..Len(c) : fgraph[c[i]].prev = <<c[i - 1]>>

\* every member but the latest has the member after it as its one consumer
LinearForwards(c) == \A i \in 1..(Len(c) - 1) : FuseConsumers(c[i]) = {c[i + 1]}

\* C26 as stated: every chain is_fusable returns is linear in both
\* directions: every member but the earliest has the member before it as
\* its one predecessor, and every member but the latest has the member
\* after it as its one consumer.
C26_StepAsStated ==
    ChainStep => (LinearBackwards(ReturnedChain) /\ LinearForwards(ReturnedChain))

C26_AsStated == [][C26_StepAsStated]_vars

\* the matcher has returned a chain of two nodes whose earlier node has a
\* second consumer outside the chain
C26_Witness ==
    /\ fpc = "done"
    /\ frules = "extra"
    /\ \E k \in 1..Len(quant_list) :
        LET c == quant_list[k]
        IN  /\ Len(c) = 2
            /\ fgraph[c[2]].prev = <<c[1]>>
            /\ \E m \in FuseConsumers(c[1]) : m # c[2]

-----------------------------------------------------------------------------
(* The tensors the promoted BatchNorm1d modules read *)

\* the number of dimensions of the tensor node n reads, before the step
InputNdim(n) == rnodes[rnodes[n].prev[1]].ndim

\* the step has put a BatchNorm2d in the place of the BatchNorm1d of node n
Promoted(n) == rnodes[n].kind = "BatchNorm1d" /\ rnodes'[n].kind = "BatchNorm2d"

\* C27 as stated: a BatchNorm1d module is replaced only when the tensor it
\* reads has three dimensions, so that the tensor after the unsqueeze has
\* four; a BatchNorm1d module that reads a tensor of two dimensions, as
\* after a Linear, stays as it is.
C27_StepAsStated ==
    BatchNormStep =>
        \A n \in 1..Len(rnodes) :
            /\ Promoted(n) =>
                /\ InputNdim(n) = 3
                /\ rnodes'[rnodes'[n].prev[1]].ndim = 4
            /\ (rnodes[n].kind = "BatchNorm1d" /\ Len(rnodes[n].prev) = 1
                    /\ InputNdim(n) = 2) => ~Promoted(n)

C27_AsStated == [][C27_StepAsStated]_vars

\* the pass is over: the BatchNorm1d after a Linear on a tensor of two
\* dimensions has become a BatchNorm2d, and the unsqueeze before it gives a
\* tensor of three dimensions
C27_Witness ==
    /\ rpc = "isolate"
    /\ \E n \in Range(rorder) :
        /\ rnodes[n].kind = "BatchNorm2d"
        /\ LET u == rnodes[n].prev[1]
           IN  /\ rnodes[u].kind = "unsqueeze"
               /\ rnodes[u].ndim = 3
               /\ rnodes[rnodes[u].prev[1]].kind = "Linear"
               /\ rnodes[rnodes[u].prev[1]].ndim = 2

-----------------------------------------------------------------------------
(* The unifications of several cat nodes *)

\* the holders recorded for one cat node are being unified
UnifyStep == catpc = "while" /\ cat_q = <<>> /\ catpc' = "for"

\* holders a and b refer to one instance
Shared(h, a, b) == h[a] # 0 /\ h[a] = h[b]

\* C28 as stated: the unification for one cat node is not undone by that for
\* a later one: holders that refer to one instance before the holders of a
\* cat node are unified refer to one instance after it, so that at the end
\* of the pass the holders recorded for every cat node refer to one
\* instance.
C28_StepAsStated ==
    UnifyStep =>
        \A a, b \in 1..Len(holds) : Shared(holds, a, b) => Shared(holds', a, b)

C28_AsStated == [][C28_StepAsStated]_vars

\* the pass is over for a graph where one QuantStub feeds two quantized cat
\* nodes: the QuantStub refers to the instance of the second cat node and
\* no longer to that of the first
C28_Witness ==
    /\ catpc = "done"
    /\ \E s, c1, c2 \in 1..Len(cgraph) :
        /\ c1 < c2
        /\ cgraph[s].kind = "QuantStub"
        /\ cgraph[c1].kind = "cat" /\ cgraph[c1].quantized /\ s \in Range(cgraph[c1].prev)
        /\ cgraph[c2].kind = "cat" /\ cgraph[c2].quantized /\ s \in Range(cgraph[c2].prev)
        /\ holds[s] = holds[c2]
        /\ holds[s] # holds[c1]

-----------------------------------------------------------------------------
(* The rewrite called on a rewritten graph *)

\* rewrite_quantize_graph is called on a graph with graph.quantized set
CalledOnQuantized == rpc = "rewrite" /\ rquantized

\* C29: rewrite_quantize_graph called on a graph whose quantized flag is set
\* returns at once: no node, edge, name or place in the forward order
\* changes and the flag stays set, so that the graph after a second call is
\* the graph after the first.
C29_Step ==
    (CalledOnQuantized /\ rpc' # rpc) =>
        /\ rpc' = "rewritten"
        /\ rnodes' = rnodes
        /\ rorder' = rorder
        /\ rquantized'

C29_SecondCallChangesNothing == [][C29_Step]_vars

\* rewrite_quantize_graph is being called again on a graph the first call
\* has put markers in
C29_Witness ==
    /\ CalledOnQuantized
    /\ \E n \in Range(rorder) : rnodes[n].kind = "QuantStub"
    /\ \E n \in Range(rorder) : rnodes[n].kind = "DeQuantStub"
    /\ \E n \in Range(rorder) : rnodes[n].kind \notin {"input", "output", "QuantStub", "DeQuantStub"}

-----------------------------------------------------------------------------
(* Linear and BatchNorm1d in the post-training pipeline *)

\* C30 as stated: when the post-training pipeline has run, a Linear directly
\* followed by a BatchNorm1d in the model is still directly followed by its
\* batch normalisation in the rewritten graph, and the matcher has returned
\* the two as one chain [linear, bn].
C30_AsStated ==
    (fpc = "done" /\ frules = "ptq") =>
        \A n \in 2..Len(rnodes) :
            (n < Len(rnodes) /\ rnodes[n].kind = "Linear"
                /\ rnodes[n + 1].kind \in {"BatchNorm1d", "BatchNorm2d"}) =>
                /\ rnodes[n + 1].prev = <<n>>
                /\ \E k \in 1..Len(quant_list) :
                     quant_list[k] = <<PositionIn(rorder, n), PositionIn(rorder, n + 1)>>

\* the pipeline has run on input -> Linear -> BatchNorm1d -> output: the
\* batch normalisation is a BatchNorm2d behind an unsqueeze, and no chain
\* has been returned
C30_Witness ==
    /\ fpc = "done" /\ frules = "ptq"
    /\ graph_quantized
    /\ rnodes[2].kind = "Linear"
    /\ rnodes[3].kind = "BatchNorm2d"
    /\ rnodes[4].kind = "output"
    /\ rnodes[rnodes[3].prev[1]].kind = "unsqueeze"
    /\ rnodes[rnodes[rnodes[3].prev[1]].prev[1]].kind = "Linear"
    /\ quant_list = <<>>

====
